---- MODULE Spec2Model ----
(***************************************************************************)
(* BLOGRON Panel: the privileged command-execution boundary (util.RunCmd,  *)
(* util.Sanitize), the file manager's path confinement (safePath) and the  *)
(* API handlers that call them.                                            *)
(*                                                                         *)
(* A Go string is a sequence of one-character strings, so <<"a", ";">> is  *)
(* the Go string "a;".  Ord gives the code point of a character; the       *)
(* backquote is written "U+0060" and e-acute "U+00E9".                     *)
(***************************************************************************)
EXTENDS Integers, Sequences, FiniteSets, TLC

VARIABLES
    allowedCommands, \* the package variable allowedCommands (a set of names)
    gateName,   \* SpecGate: the command name handed to RunCmd
    gateArgs,   \* SpecGate: the arguments handed to RunCmd
    gateRet,    \* SpecGate: what RunCmd returned, NoCall before the call
    spawned,    \* SpecGate: the argument vectors of the processes started
    fsPaths,    \* the directories that exist at or below /var/www
    files,      \* the configuration files: file name -> content
    resp,       \* the last request served: handler, status and effects
    pathArg,    \* SpecPath: the path string a request carries
    raw,        \* SpecSanitize: the string handed to Sanitize
    clean,      \* SpecSanitize: Sanitize(raw)
    twice,      \* SpecSanitize: Sanitize(Sanitize(raw))
    sanStage,   \* SpecSanitize: "in", "once" or "twice"
    clock,      \* SpecRun: seconds since the server started
    workers,    \* SpecRun: the request each worker serves and where it stands
    proc,       \* SpecOutput: how the started program ends and what it printed
    runOut,     \* SpecOutput: the (string, error) pair RunCmd returned
    filesBefore, \* files before the last crontab, zone or mail request
    cronLog,    \* SpecCron: the crontab requests that succeeded, in order
    racers,     \* SpecRace: the requests in flight and what each has read
    now,        \* SpecSerial: the hour of the wall clock
    zoneIn,     \* SpecZone: the domain, address and serial given to buildZoneFile
    zoneOut,    \* SpecZone: the zone parsed back from the built file
    cronFields, \* SpecHuman: the five schedule fields given to humanReadableCron
    summary,    \* SpecHuman: the text humanReadableCron returned
    daemonUp,   \* whether the daemons take a reload or restart (environment)
    listings,   \* the listing of cron jobs each client received last
    meant,      \* the listed job the last delete request of a client referred to
    tasks,      \* the commands of the background tasks launched and not yet run
    accounts,   \* the login accounts of the system
    errs,       \* the error of each RunCmd call of the last CreateUser request
    symlinks    \* symbolic links of the file system: link path to target path

sanVars == <<raw, clean, twice, sanStage>>

gateVars == <<gateName, gateArgs, gateRet, spawned>>

apiVars == <<fsPaths, files, resp>>

runVars == <<clock, workers>>

outVars == <<proc, runOut>>

histVars == <<filesBefore, cronLog, racers, now>>

zoneVars == <<zoneIn, zoneOut>>

humanVars == <<cronFields, summary>>

envVars == <<daemonUp>>

clientVars == <<listings, meant>>

taskVars == <<tasks>>

osVars == <<accounts, errs>>

linkVars == <<symlinks>>

vars == <<allowedCommands, gateName, gateArgs, gateRet, spawned,
          fsPaths, files, resp, pathArg, raw, clean, twice, sanStage,
          clock, workers,
          proc, runOut,
          filesBefore, cronLog, racers, now,
          zoneIn, zoneOut,
          cronFields, summary,
          daemonUp,
          listings, meant,
          tasks,
          accounts, errs,
          symlinks>>

(***************************************************************************)
(* Characters and the string functions of the Go standard library that the *)
(* code calls.                                                             *)
(***************************************************************************)

\* Code points of the characters of the model's alphabet (Go rune values).
Ord ==
    "\t" :> 9 @@ "\n" :> 10 @@ "\r" :> 13 @@ " " :> 32 @@ "!" :> 33 @@
    "\"" :> 34 @@ "#" :> 35 @@ "$" :> 36 @@ "%" :> 37 @@ "&" :> 38 @@
    "'" :> 39 @@ "(" :> 40 @@ ")" :> 41 @@ "*" :> 42 @@ "+" :> 43 @@
    "," :> 44 @@ "-" :> 45 @@ "." :> 46 @@ "/" :> 47 @@ "0" :> 48 @@
    "1" :> 49 @@ "2" :> 50 @@ "3" :> 51 @@ "4" :> 52 @@ "5" :> 53 @@
    "6" :> 54 @@ "7" :> 55 @@ "8" :> 56 @@ "9" :> 57 @@ ":" :> 58 @@
    ";" :> 59 @@ "<" :> 60 @@ "=" :> 61 @@ ">" :> 62 @@ "?" :> 63 @@
    "@" :> 64 @@ "A" :> 65 @@ "B" :> 66 @@ "C" :> 67 @@ "D" :> 68 @@
    "E" :> 69 @@ "F" :> 70 @@ "G" :> 71 @@ "H" :> 72 @@ "I" :> 73 @@
    "J" :> 74 @@ "K" :> 75 @@ "L" :> 76 @@ "M" :> 77 @@ "N" :> 78 @@
    "O" :> 79 @@ "P" :> 80 @@ "Q" :> 81 @@ "R" :> 82 @@ "S" :> 83 @@
    "T" :> 84 @@ "U" :> 85 @@ "V" :> 86 @@ "W" :> 87 @@ "X" :> 88 @@
    "Y" :> 89 @@ "Z" :> 90 @@ "[" :> 91 @@ "\\" :> 92 @@ "]" :> 93 @@
    "^" :> 94 @@ "_" :> 95 @@ "U+0060" :> 96 @@ "a" :> 97 @@ "b" :> 98 @@
    "c" :> 99 @@ "d" :> 100 @@ "e" :> 101 @@ "f" :> 102 @@ "g" :> 103 @@
    "h" :> 104 @@ "i" :> 105 @@ "j" :> 106 @@ "k" :> 107 @@ "l" :> 108 @@
    "m" :> 109 @@ "n" :> 110 @@ "o" :> 111 @@ "p" :> 112 @@ "q" :> 113 @@
    "r" :> 114 @@ "s" :> 115 @@ "t" :> 116 @@ "u" :> 117 @@ "v" :> 118 @@
    "w" :> 119 @@ "x" :> 120 @@ "y" :> 121 @@ "z" :> 122 @@ "{" :> 123 @@
    "|" :> 124 @@ "}" :> 125 @@ "~" :> 126 @@ "U+00E9" :> 233

\* strings.HasPrefix
HasPrefix(s, prefix) ==
    Len(s) >= Len(prefix) /\ SubSeq(s, 1, Len(prefix)) = prefix

\* strings.TrimPrefix
TrimPrefix(s, prefix) ==
    IF HasPrefix(s, prefix) THEN SubSeq(s, Len(prefix) + 1, Len(s)) ELSE s

\* strings.Contains
Contains(s, substr) ==
    \E i \in 0..(Len(s) - Len(substr)) : SubSeq(s, i + 1, i + Len(substr)) = substr

\* Every string over the alphabet of length at most n (the inputs of a check).
RECURSIVE StringsUpTo(_, _)
StringsUpTo(alphabet, n) ==
    IF n = 0 THEN {<<>>}
    ELSE LET shorter == StringsUpTo(alphabet, n - 1)
         IN shorter \cup {<<c>> \o s : c \in alphabet, s \in {t \in shorter : Len(t) = n - 1}}

(***************************************************************************)
(* String literals of the source: command names, file names and the        *)
(* argument texts the handlers pass to RunCmd.                             *)
(***************************************************************************)

c_useradd == <<"u", "s", "e", "r", "a", "d", "d">>
c_userdel == <<"u", "s", "e", "r", "d", "e", "l">>
c_usermod == <<"u", "s", "e", "r", "m", "o", "d">>
c_passwd == <<"p", "a", "s", "s", "w", "d">>
c_chpasswd == <<"c", "h", "p", "a", "s", "s", "w", "d">>
c_nginx == <<"n", "g", "i", "n", "x">>
c_systemctl == <<"s", "y", "s", "t", "e", "m", "c", "t", "l">>
c_certbot == <<"c", "e", "r", "t", "b", "o", "t">>
c_mysql == <<"m", "y", "s", "q", "l">>
c_mysqladmin == <<"m", "y", "s", "q", "l", "a", "d", "m", "i", "n">>
c_mkdir == <<"m", "k", "d", "i", "r">>
c_rm == <<"r", "m">>
c_mv == <<"m", "v">>
c_ls == <<"l", "s">>
c_cat == <<"c", "a", "t">>
c_find == <<"f", "i", "n", "d">>
c_df == <<"d", "f">>
c_free == <<"f", "r", "e", "e">>
c_uptime == <<"u", "p", "t", "i", "m", "e">>
c_journalctl == <<"j", "o", "u", "r", "n", "a", "l", "c", "t", "l">>
c_ln == <<"l", "n">>
c_chmod == <<"c", "h", "m", "o", "d">>
c_chown == <<"c", "h", "o", "w", "n">>
c_sudo == <<"s", "u", "d", "o">>
a_dash_c == <<"-", "c">>
msg_command_failed == <<"c", "o", "m", "m", "a", "n", "d", " ", "f", "a",
    "i", "l", "e", "d", ":", " ">>
c_postmap == <<"p", "o", "s", "t", "m", "a", "p">>
c_postqueue == <<"p", "o", "s", "t", "q", "u", "e", "u", "e">>
c_bash == <<"b", "a", "s", "h">>
fileManagerRoot == <<"/", "v", "a", "r", "/", "w", "w", "w">>
vsftpdUserListFile == <<"/", "e", "t", "c", "/", "v", "s", "f", "t", "p",
    "d", ".", "u", "s", "e", "r", "l", "i", "s", "t">>
postfixVirtualMapsFile == <<"/", "e", "t", "c", "/", "p", "o", "s", "t", "f",
    "i", "x", "/", "v", "i", "r", "t", "u", "a", "l", "_", "m", "a", "i",
    "l", "b", "o", "x", "_", "m", "a", "p", "s">>
postfixVirtualDomainsFile == <<"/", "e", "t", "c", "/", "p", "o", "s", "t",
    "f", "i", "x", "/", "v", "i", "r", "t", "u", "a", "l", "_", "m", "a",
    "i", "l", "b", "o", "x", "_", "d", "o", "m", "a", "i", "n", "s">>
dovecotPasswdFile == <<"/", "e", "t", "c", "/", "d", "o", "v", "e", "c", "o",
    "t", "/", "u", "s", "e", "r", "s">>
mailStorageBase == <<"/", "v", "a", "r", "/", "m", "a", "i", "l", "/", "v",
    "h", "o", "s", "t", "s">>
a_root == <<"r", "o", "o", "t">>
a_nologin == <<"/", "u", "s", "r", "/", "s", "b", "i", "n", "/", "n", "o",
    "l", "o", "g", "i", "n">>
a_bin_bash == <<"/", "b", "i", "n", "/", "b", "a", "s", "h">>
a_bin_sh == <<"/", "b", "i", "n", "/", "s", "h">>
a_m == <<"-", "m">>
a_d == <<"-", "d">>
a_s == <<"-", "s">>
a_r == <<"-", "r">>
a_G == <<"-", "G">>
a_L == <<"-", "L">>
a_U == <<"-", "U">>
a_R == <<"-", "R">>
a_p == <<"-", "p">>
a_f == <<"-", "f">>
a_skip_column_names == <<"-", "-", "s", "k", "i", "p", "-", "c", "o", "l",
    "u", "m", "n", "-", "n", "a", "m", "e", "s">>
a_restart == <<"r", "e", "s", "t", "a", "r", "t">>
a_reload == <<"r", "e", "l", "o", "a", "d">>
a_vsftpd == <<"v", "s", "f", "t", "p", "d">>
a_postfix == <<"p", "o", "s", "t", "f", "i", "x">>
a_vmail == <<"v", "m", "a", "i", "l", ":", "v", "m", "a", "i", "l">>
a_localhost == <<"l", "o", "c", "a", "l", "h", "o", "s", "t">>
a_1G == <<"1", "G">>
sql_show_databases == <<"S", "H", "O", "W", " ", "D", "A", "T", "A", "B",
    "A", "S", "E", "S", ";">>
sql_create_database == <<"C", "R", "E", "A", "T", "E", " ", "D", "A", "T",
    "A", "B", "A", "S", "E", " ", "U+0060">>
sql_charset == <<"U+0060", " ", "C", "H", "A", "R", "A", "C", "T", "E", "R",
    " ", "S", "E", "T", " ", "u", "t", "f", "8", "m", "b", "4", " ", "C",
    "O", "L", "L", "A", "T", "E", " ", "u", "t", "f", "8", "m", "b", "4",
    "_", "u", "n", "i", "c", "o", "d", "e", "_", "c", "i", ";">>
sql_drop_database == <<"D", "R", "O", "P", " ", "D", "A", "T", "A", "B", "A",
    "S", "E", " ", "U+0060">>
sql_end_quoted == <<"U+0060", ";">>
sql_create_user == <<"C", "R", "E", "A", "T", "E", " ", "U", "S", "E", "R",
    " ", "'">>
sql_at == <<"'", "@", "'">>
sql_identified_by == <<"'", " ", "I", "D", "E", "N", "T", "I", "F", "I", "E",
    "D", " ", "B", "Y", " ", "'">>
sql_to == <<"U+0060", ".", "*", " ", "T", "O", " ", "'">>
db_information_schema == <<"i", "n", "f", "o", "r", "m", "a", "t", "i", "o",
    "n", "_", "s", "c", "h", "e", "m", "a">>
db_performance_schema == <<"p", "e", "r", "f", "o", "r", "m", "a", "n", "c",
    "e", "_", "s", "c", "h", "e", "m", "a">>
db_sys == <<"s", "y", "s">>
dovecot_plain == <<":", "{", "P", "L", "A", "I", "N", "}">>
dovecot_quota_rule == <<":", ":", ":", ":", ":", "u", "s", "e", "r", "d",
    "b", "_", "q", "u", "o", "t", "a", "_", "r", "u", "l", "e", "=", "*",
    ":", "s", "t", "o", "r", "a", "g", "e", "=">>
sub_cur == <<"/", "c", "u", "r">>
sub_new == <<"/", "n", "e", "w">>
sub_tmp == <<"/", "t", "m", "p">>
a_colon == <<":">>
ftpHomeBase == <<"/", "v", "a", "r", "/", "w", "w", "w", "/">>
ftpHomePrefix == <<"/", "v", "a", "r", "/", "w", "w", "w">>
sql_size_query == <<"S", "E", "L", "E", "C", "T", " ", "R", "O", "U", "N",
    "D", "(", "S", "U", "M", "(", "d", "a", "t", "a", "_", "l", "e", "n",
    "g", "t", "h", " ", "+", " ", "i", "n", "d", "e", "x", "_", "l", "e",
    "n", "g", "t", "h", ")", " ", "/", " ", "1", "0", "2", "4", " ", "/",
    " ", "1", "0", "2", "4", ",", " ", "1", ")", " ", "A", "S", " ", "'",
    "M", "B", "'", "\n", " ", " ", " ", " ", " ", " ", " ", " ", " ", " ",
    " ", " ", " ", " ", "F", "R", "O", "M", " ", "i", "n", "f", "o", "r",
    "m", "a", "t", "i", "o", "n", "_", "s", "c", "h", "e", "m", "a", ".",
    "t", "a", "b", "l", "e", "s", " ", "W", "H", "E", "R", "E", " ", "t",
    "a", "b", "l", "e", "_", "s", "c", "h", "e", "m", "a", " ", "=", " ",
    "'">>
sql_count_query == <<"S", "E", "L", "E", "C", "T", " ", "C", "O", "U", "N",
    "T", "(", "*", ")", " ", "F", "R", "O", "M", " ", "i", "n", "f", "o",
    "r", "m", "a", "t", "i", "o", "n", "_", "s", "c", "h", "e", "m", "a",
    ".", "t", "a", "b", "l", "e", "s", " ", "W", "H", "E", "R", "E", " ",
    "t", "a", "b", "l", "e", "_", "s", "c", "h", "e", "m", "a", " ", "=",
    " ", "'">>
sql_end_string == <<"'", ";">>
sql_flush_privileges == <<"F", "L", "U", "S", "H", " ", "P", "R", "I", "V",
    "I", "L", "E", "G", "E", "S", ";">>
sql_grant_all == <<"G", "R", "A", "N", "T", " ", "A", "L", "L", " ", "P",
    "R", "I", "V", "I", "L", "E", "G", "E", "S", " ", "O", "N", " ",
    "U+0060">>
sql_stmt_sep == <<"'", ";", " ">>
a_e == <<"-", "e">>
a_u == <<"-", "u">>
db_p == <<"-", "p">>
cronDir == <<"/", "v", "a", "r", "/", "s", "p", "o", "o", "l", "/", "c", "r",
    "o", "n", "/", "c", "r", "o", "n", "t", "a", "b", "s">>
etcCrontab == <<"/", "e", "t", "c", "/", "c", "r", "o", "n", "t", "a", "b">>
bindZonesDir == <<"/", "e", "t", "c", "/", "b", "i", "n", "d", "/", "z", "o",
    "n", "e", "s">>
bindNamedLocal == <<"/", "e", "t", "c", "/", "b", "i", "n", "d", "/", "n",
    "a", "m", "e", "d", ".", "c", "o", "n", "f", ".", "l", "o", "c", "a",
    "l">>
a_named == <<"n", "a", "m", "e", "d">>
dns_default_ttl == <<"3", "6", "0", "0">>
nginxSitesAvailable == <<"/", "e", "t", "c", "/", "n", "g", "i", "n", "x",
    "/", "s", "i", "t", "e", "s", "-", "a", "v", "a", "i", "l", "a", "b",
    "l", "e">>
nginxSitesEnabled == <<"/", "e", "t", "c", "/", "n", "g", "i", "n", "x", "/",
    "s", "i", "t", "e", "s", "-", "e", "n", "a", "b", "l", "e", "d">>
webRoot == <<"/", "v", "a", "r", "/", "w", "w", "w">>
sfx_conf == <<".", "c", "o", "n", "f">>
php_default == <<"8", ".", "2">>
sub_public_html == <<"/", "p", "u", "b", "l", "i", "c", "_", "h", "t", "m",
    "l">>
php_socket_prefix == <<"/", "r", "u", "n", "/", "p", "h", "p", "/", "p", "h",
    "p">>
php_socket_suffix == <<"-", "f", "p", "m", ".", "s", "o", "c", "k">>
a_t == <<"-", "t">>
a_www_data == <<"w", "w", "w", "-", "d", "a", "t", "a", ":", "w", "w", "w",
    "-", "d", "a", "t", "a">>
a_nginx == <<"n", "g", "i", "n", "x">>

\* Strings that appear in no source file: request values the checks draw from.
c_curl == <<"c", "u", "r", "l">>
in_bob == <<"b", "o", "b">>
in_bang == <<"!", ";">>
in_shop == <<"s", "h", "o", "p">>
in_password == <<"p", "a", "s", "s", "w", "o", "r", "d", "1">>
in_short == <<"s", "h", "o", "r", "t">>
in_dollar_password == <<"p", "a", "$", "$", "w", "o", "r", "d", "1">>
in_zsh == <<"/", "b", "i", "n", "/", "z", "s", "h">>
in_email == <<"b", "o", "b", "@", "a", ".", "c", "o", "m">>
in_email_bad == <<"!", "@", "!">>
in_5G == <<"5", "G">>
in_etc_passwd == <<".", ".", "/", ".", ".", "/", "e", "t", "c", "/", "p",
    "a", "s", "s", "w", "d">>
in_a_up_up_b == <<"a", "/", ".", ".", "/", ".", ".", "/", "b">>
in_slash_a_b == <<"/", "a", "/", "b">>
in_home_sibling == <<"/", "v", "a", "r", "/", "w", "w", "w", "2", "/", "x">>
in_home_etc == <<"/", "e", "t", "c">>
in_home_up == <<"/", "v", "a", "r", "/", "w", "w", "w", "/", ".", ".", "/",
    ".", ".", "/", "r", "o", "o", "t">>
in_home_site == <<"/", "v", "a", "r", "/", "w", "w", "w", "/", "s", "i", "t",
    "e">>
in_a_com == <<"a", ".", "c", "o", "m">>
in_a_com_au == <<"a", ".", "c", "o", "m", ".", "a", "u">>
in_panel == <<"p", "a", "n", "e", "l">>
in_up_www2 == <<".", ".", "/", "w", "w", "w", "2">>
p_a == <<"a">>
p_b == <<"b">>
p_a_a == <<"a", "/", "a">>
cr_hash_c == <<"#", "c">>
cr_shell == <<"S", "H", "E", "L", "L", "=", "s">>
cr_mailto_line == <<"M", "A", "I", "L", "T", "O", "=", "a">>
cr_path_line == <<"P", "A", "T", "H", "=", "/">>
cr_short == <<"a", " ", "b">>
cr_job_x == <<"1", " ", "*", " ", "*", " ", "*", " ", "*", " ", "x">>
cr_job_y == <<" ", "2", " ", "*", " ", "*", " ", "*", " ", "*", " ", "y">>
in_star == <<"*">>
in_every5 == <<"*", "/", "5">>
in_at == <<"@">>
in_one == <<"1">>
in_cmd_x == <<"x">>
in_cmd_y == <<"y", " ", "z">>
in_ip == <<"1", ".", "2", ".", "3", ".", "4">>
in_ip6 == <<":", ":", "1">>
in_www == <<"w", "w", "w">>
in_serial == <<"2", "0", "2", "4", "0", "6", "0", "1", "1", "2">>
in_serial_low == <<"7">>
in_b_org == <<"b", ".", "o", "r", "g">>
in_serial_io == <<"s", "e", "r", "i", "a", "l", ".", "i", "o">>
in_php81 == <<"8", ".", "1">>
in_docroot == <<"/", "s", "r", "v", "/", "s", "i", "t", "e">>

(***************************************************************************)
(* util.RunCmd and its validation                                          *)
(***************************************************************************)

\* The value of the package variable allowedCommands at program start.
AllowedCommandsInit ==
    {c_useradd, c_userdel, c_usermod, c_passwd, c_chpasswd, c_nginx,
     c_systemctl, c_certbot, c_mysql, c_mysqladmin, c_mkdir, c_rm, c_mv,
     c_ls, c_cat, c_find, c_df, c_free, c_uptime, c_journalctl, c_ln,
     c_chmod, c_chown}

\* The characters validateCommand looks for in every argument.
ShellMetaChars == {";", "&", "|", "U+0060", "$", "(", ")", "<", ">", "\n", "\r"}

\* validateCommand without the allowlist lookup.
validateCommandArgsOnly(name, args) ==
    IF \E i \in 1..Len(args) : \E ch \in ShellMetaChars : Contains(args[i], <<ch>>)
    THEN "disallowed character"
    ELSE "nil"

\* validateCommand without the scan of the arguments.
validateCommandNameOnly(name, args) ==
    IF name \notin allowedCommands THEN "not allowed" ELSE "nil"

\* The error validateCommand returns, "nil" for none.
validateCommand(name, args) ==
    IF name \notin allowedCommands THEN "not allowed"
    ELSE IF \E i \in 1..Len(args) : \E ch \in ShellMetaChars : Contains(args[i], <<ch>>)
         THEN "disallowed character"
         ELSE "nil"

\* One call of RunCmd.  exitOk says whether the started program exits with
\* status zero (cmd.Run returns nil); it is the environment's choice.  argv
\* is the argument vector of the process RunCmd starts, <<>> when it starts
\* none; err is the error it returns, "nil" for none.
RunCmd(name, args, exitOk) ==
    LET verdict == validateCommand(name, args)
    IN IF verdict # "nil"
       THEN [name |-> name, args |-> args, argv |-> <<>>, err |-> verdict]
       ELSE [name |-> name, args |-> args,
             argv |-> <<c_sudo, name>> \o args,
             err |-> IF exitOk THEN "nil" ELSE "command failed"]

(***************************************************************************)
(* util.Sanitize                                                           *)
(***************************************************************************)

\* A range test with the upper-case and lower-case ranges merged into one.
IsSafeRuneMerged(r) ==
    \/ (Ord[r] >= Ord["A"] /\ Ord[r] <= Ord["z"])
    \/ (Ord[r] >= Ord["0"] /\ Ord[r] <= Ord["9"])
    \/ r = "-" \/ r = "_" \/ r = "."

\* The condition of the if statement in the loop of Sanitize.
IsSafeRune(r) ==
    \/ (Ord[r] >= Ord["a"] /\ Ord[r] <= Ord["z"])
    \/ (Ord[r] >= Ord["A"] /\ Ord[r] <= Ord["Z"])
    \/ (Ord[r] >= Ord["0"] /\ Ord[r] <= Ord["9"])
    \/ r = "-" \/ r = "_" \/ r = "."

RECURSIVE Sanitize(_)
Sanitize(s) ==
    IF s = <<>> THEN <<>>
    ELSE (IF IsSafeRune(Head(s)) THEN <<Head(s)>> ELSE <<>>) \o Sanitize(Tail(s))

(***************************************************************************)
(* What RunCmd hands back: the output string and the error message         *)
(***************************************************************************)

\* The white space strings.TrimSpace removes, among the model's characters.
WhiteSpace == {" ", "\t", "\n", "\r"}

\* strings.TrimSpace
RECURSIVE TrimLeft(_)
TrimLeft(s) ==
    IF s # <<>> /\ Head(s) \in WhiteSpace THEN TrimLeft(Tail(s)) ELSE s

RECURSIVE TrimRight(_)
TrimRight(s) ==
    IF s # <<>> /\ s[Len(s)] \in WhiteSpace
    THEN TrimRight(SubSeq(s, 1, Len(s) - 1))
    ELSE s

TrimSpace(s) == TrimRight(TrimLeft(s))

\* strings.Fields: the maximal runs of characters that are not white space.
RECURSIVE FieldsAcc(_, _, _)
FieldsAcc(s, cur, acc) ==
    IF s = <<>> THEN (IF cur = <<>> THEN acc ELSE Append(acc, cur))
    ELSE IF Head(s) \in WhiteSpace
         THEN FieldsAcc(Tail(s), <<>>, IF cur = <<>> THEN acc ELSE Append(acc, cur))
    ELSE FieldsAcc(Tail(s), Append(cur, Head(s)), acc)

Fields(s) == FieldsAcc(s, <<>>, <<>>)

\* RunCmd that reports the combined output of the program on failure.
RunCmdOutputCombined(name, args, p) ==
    LET verdict == validateCommand(name, args)
    IN IF verdict # "nil"
       THEN [out |-> <<>>, err |-> verdict, msg |-> <<>>]
       ELSE IF ~p.started \/ p.exit # 0
       THEN [out |-> <<>>, err |-> "command failed",
             msg |-> msg_command_failed \o TrimSpace(p.stdout \o p.stderr)]
       ELSE [out |-> TrimSpace(p.stdout), err |-> "nil", msg |-> <<>>]

\* RunCmd with the program's end p = [started, exit, stdout, stderr]: the
\* string it returns, the kind of its error and the error's message.
\* cmd.Run fails when the program cannot be started or exits non-zero.
RunCmdOutput(name, args, p) ==
    LET verdict == validateCommand(name, args)
    IN IF verdict # "nil"
       THEN [out |-> <<>>, err |-> verdict, msg |-> <<>>]
       ELSE IF ~p.started \/ p.exit # 0
       THEN [out |-> <<>>, err |-> "command failed",
             msg |-> msg_command_failed \o TrimSpace(p.stderr)]
       ELSE [out |-> TrimSpace(p.stdout), err |-> "nil", msg |-> <<>>]

(***************************************************************************)
(* safePath and the path functions of path/filepath it calls               *)
(***************************************************************************)

\* strings.Split(s, sep) for a one-character separator.
Split(s, sep) ==
    LET cuts == <<0>> \o SelectSeq([i \in 1..Len(s) |-> i], LAMBDA i : s[i] = sep)
                \o <<Len(s) + 1>>
    IN [k \in 1..(Len(cuts) - 1) |-> SubSeq(s, cuts[k] + 1, cuts[k + 1] - 1)]

\* strings.Join(parts, sep)
RECURSIVE JoinSep(_, _)
JoinSep(parts, sep) ==
    IF parts = <<>> THEN <<>>
    ELSE IF Len(parts) = 1 THEN parts[1]
    ELSE parts[1] \o sep \o JoinSep(Tail(parts), sep)

DotDot == <<".", ".">>

\* The element loop of filepath.Clean: kept is the list of path elements
\* written so far.  Empty elements and "." are dropped; ".." removes the
\* element before it, is dropped at the root of a rooted path and is kept
\* at the start of a relative one.
RECURSIVE CleanElements(_, _, _)
CleanElements(elems, kept, rooted) ==
    IF elems = <<>> THEN kept
    ELSE LET e == Head(elems)
             next ==
                 IF e = <<>> \/ e = <<".">> THEN kept
                 ELSE IF e = DotDot
                      THEN IF kept # <<>> /\ kept[Len(kept)] # DotDot
                           THEN SubSeq(kept, 1, Len(kept) - 1)
                           ELSE IF rooted THEN kept ELSE Append(kept, e)
                      ELSE Append(kept, e)
         IN CleanElements(Tail(elems), next, rooted)

\* filepath.Clean that keeps a ".." at the root of a rooted path.
CleanKeepDotDot(path) ==
    IF path = <<>> THEN <<".">>
    ELSE LET rooted == path[1] = "/"
             kept == CleanElements(Split(path, "/"), <<>>, FALSE)
             out == (IF rooted THEN <<"/">> ELSE <<>>) \o JoinSep(kept, <<"/">>)
         IN IF out = <<>> THEN <<".">> ELSE out

\* filepath.Clean (Unix): the shortest path equivalent to path by purely
\* lexical processing.
Clean(path) ==
    IF path = <<>> THEN <<".">>
    ELSE LET rooted == path[1] = "/"
             kept == CleanElements(Split(path, "/"), <<>>, rooted)
             out == (IF rooted THEN <<"/">> ELSE <<>>) \o JoinSep(kept, <<"/">>)
         IN IF out = <<>> THEN <<".">> ELSE out

\* filepath.Join: the non-empty elements joined with "/" and cleaned; the
\* empty string when every element is empty.
FilepathJoin(elems) ==
    LET nonEmpty == SelectSeq(elems, LAMBDA e : e # <<>>)
    IN IF nonEmpty = <<>> THEN <<>> ELSE Clean(JoinSep(nonEmpty, <<"/">>))

\* safePath without the forced "/" and the cleaning of the request.
safePathJoinOnly(requested) ==
    LET full == FilepathJoin(<<fileManagerRoot, requested>>)
    IN IF ~HasPrefix(full, fileManagerRoot)
       THEN [path |-> <<>>, err |-> "permission"]
       ELSE [path |-> full, err |-> "nil"]

\* safePath: the path it returns and its error, "nil" for none.
safePath(requested) ==
    LET req == IF requested = <<>> THEN <<"/">> ELSE requested
        full == FilepathJoin(<<fileManagerRoot, Clean(<<"/">> \o req)>>)
    IN IF ~HasPrefix(full, fileManagerRoot)
       THEN [path |-> <<>>, err |-> "permission"]
       ELSE [path |-> full, err |-> "nil"]

(***************************************************************************)
(* Requests and their recorded effects.  A handler is one action: it reads *)
(* the decoded request, runs to its response and leaves in resp what it    *)
(* did: the HTTP status, the RunCmd calls in order, the files it wrote,    *)
(* the identifiers it sanitized and the paths safePath gave it.  What an   *)
(* external program does once started is outside the model; a call whose   *)
(* result the handler discards is recorded without its exit status.        *)
(***************************************************************************)

Response(op, status, calls, writes, idents, paths, fsChanged) ==
    [op |-> op, status |-> status, calls |-> calls, writes |-> writes,
     idents |-> idents, paths |-> paths, fsChanged |-> fsChanged]

NoRequest == Response("none", 0, <<>>, {}, <<>>, <<>>, FALSE)

\* The entry a RunCmd call leaves in resp.calls.
CallLog(ret) == [name |-> ret.name, args |-> ret.args, argv |-> ret.argv]

\* A RunCmd call whose return values the handler discards.
Discarded(name, args) == CallLog(RunCmd(name, args, TRUE))

ApiIdle ==
    /\ fsPaths = {fileManagerRoot}
    /\ files = <<>>
    /\ resp = NoRequest

(***************************************************************************)
(* The directory tree below /var/www and the os functions the file manager *)
(* calls on it.                                                            *)
(***************************************************************************)

\* p is dir or lies below it.
IsUnder(p, dir) == p = dir \/ HasPrefix(p, dir \o <<"/">>)

\* filepath.Dir for a cleaned absolute path.
Parent(p) ==
    LET elems == Split(p, "/")
        dir == JoinSep(SubSeq(elems, 1, Len(elems) - 1), <<"/">>)
    IN IF dir = <<>> THEN <<"/">> ELSE dir

\* The number of path elements of p below /var/www.
Depth(p) == Len(Split(p, "/")) - Len(Split(fileManagerRoot, "/"))

\* os.MkdirAll: p and its missing ancestors are created.
MkdirAll(tree, p) ==
    LET elems == Split(p, "/")
    IN tree \cup {q \in {JoinSep(SubSeq(elems, 1, k), <<"/">>) : k \in 1..Len(elems)} :
                    IsUnder(q, fileManagerRoot)}

\* os.RemoveAll: p and everything below it is removed; a missing p is no error.
RemoveAll(tree, p) == {q \in tree : ~IsUnder(q, p)}

\* os.Rename (rename(2)) on directories: the error and the tree afterwards.
Rename(tree, src, dst) ==
    IF src \notin tree THEN [err |-> "ENOENT", tree |-> tree]
    ELSE IF src = dst THEN [err |-> "nil", tree |-> tree]
    ELSE IF IsUnder(dst, src) THEN [err |-> "EINVAL", tree |-> tree]
    ELSE IF dst # fileManagerRoot /\ Parent(dst) \notin tree
         THEN [err |-> "ENOENT", tree |-> tree]
    ELSE IF \E q \in tree : q # dst /\ IsUnder(q, dst)
         THEN [err |-> "ENOTEMPTY", tree |-> tree]
    ELSE [err |-> "nil",
          tree |-> {q \in tree : ~IsUnder(q, src)}
                     \cup {dst \o SubSeq(q, Len(src) + 1, Len(q)) :
                             q \in {t \in tree : IsUnder(t, src)}}]

(***************************************************************************)
(* File manager handlers (files.go)                                        *)
(***************************************************************************)

MaxFsDepth == 2

\* GET /api/files?path=
ListFiles(reqPath) ==
    LET sp == safePath(reqPath)
    IN /\ \E ioOk \in BOOLEAN :
            resp' = Response("ListFiles",
                        IF sp.err # "nil" THEN 403
                        ELSE IF sp.path \notin fsPaths \/ ~ioOk THEN 500
                        ELSE 200,
                        <<>>, {}, <<>>, <<sp>>, FALSE)
       /\ UNCHANGED <<fsPaths, files>>

\* POST /api/files/mkdir
MakeDirectory(path) ==
    LET sp == safePath(path)
    IN IF sp.err # "nil"
       THEN /\ resp' = Response("MakeDirectory", 403, <<>>, {}, <<>>, <<sp>>, FALSE)
            /\ UNCHANGED <<fsPaths, files>>
       ELSE /\ Depth(sp.path) <= MaxFsDepth
            /\ \E ioOk \in BOOLEAN :
                LET tree == IF ioOk THEN MkdirAll(fsPaths, sp.path) ELSE fsPaths
                IN /\ fsPaths' = tree
                   /\ resp' = Response("MakeDirectory", IF ioOk THEN 201 ELSE 500,
                                  <<>>, {}, <<>>, <<sp>>, tree # fsPaths)
            /\ UNCHANGED files

\* DELETE /api/files?path=
DeleteFile(reqPath) ==
    LET sp == safePath(reqPath)
    IN IF sp.err # "nil"
       THEN /\ resp' = Response("DeleteFile", 403, <<>>, {}, <<>>, <<sp>>, FALSE)
            /\ UNCHANGED <<fsPaths, files>>
       ELSE IF sp.path = fileManagerRoot
       THEN /\ resp' = Response("DeleteFile", 403, <<>>, {}, <<>>, <<sp>>, FALSE)
            /\ UNCHANGED <<fsPaths, files>>
       ELSE /\ \E ioOk \in BOOLEAN :
                LET tree == IF ioOk THEN RemoveAll(fsPaths, sp.path) ELSE fsPaths
                IN /\ fsPaths' = tree
                   /\ resp' = Response("DeleteFile", IF ioOk THEN 200 ELSE 500,
                                  <<>>, {}, <<>>, <<sp>>, tree # fsPaths)
            /\ UNCHANGED files

\* POST /api/files/rename
RenameFile(from, to) ==
    LET src == safePath(from)
        dst == safePath(to)
    IN IF src.err # "nil"
       THEN /\ resp' = Response("RenameFile", 403, <<>>, {}, <<>>, <<src>>, FALSE)
            /\ UNCHANGED <<fsPaths, files>>
       ELSE IF dst.err # "nil"
       THEN /\ resp' = Response("RenameFile", 403, <<>>, {}, <<>>, <<src, dst>>, FALSE)
            /\ UNCHANGED <<fsPaths, files>>
       ELSE LET rn == Rename(fsPaths, src.path, dst.path)
            IN /\ \A q \in rn.tree : Depth(q) <= MaxFsDepth
               /\ fsPaths' = rn.tree
               /\ resp' = Response("RenameFile", IF rn.err # "nil" THEN 500 ELSE 200,
                              <<>>, {}, <<>>, <<src, dst>>, rn.tree # fsPaths)
               /\ UNCHANGED files

(***************************************************************************)
(* Line-oriented configuration files (email.go helpers)                    *)
(***************************************************************************)

MaxFileLines == 1

\* The number of complete lines of a file's content.
LineCount(content) == Len(SelectSeq(content, LAMBDA c : c = "\n"))

Content(fs, file) == IF file \in DOMAIN fs THEN fs[file] ELSE <<>>

\* An append that reports success and writes nothing.
appendLineLost(fs, file, line) == fs

\* appendLine: the file is created when missing and line + "\n" is appended.
appendLine(fs, file, line) ==
    [f \in DOMAIN fs \cup {file} |->
        IF f = file THEN Content(fs, file) \o line \o <<"\n">> ELSE fs[f]]

\* removeLine: every line that starts with prefix is dropped and the file
\* is rewritten; a file that cannot be read is left alone.
removeLine(fs, file, prefix) ==
    IF file \notin DOMAIN fs THEN fs
    ELSE [fs EXCEPT ![file] =
            JoinSep(SelectSeq(Split(fs[file], "\n"),
                              LAMBDA l : ~HasPrefix(l, prefix)),
                    <<"\n">>)]

(***************************************************************************)
(* FTP handlers                                                            *)
(***************************************************************************)

\* POST /api/ftp
CreateFTPUser(bodyUsername, bodyPassword, bodyHomeDir) ==
    LET username == Sanitize(bodyUsername)
    IN IF username = <<>> \/ Len(bodyPassword) < 8
       THEN /\ resp' = Response("CreateFTPUser", 400, <<>>, {}, <<username>>, <<>>, FALSE)
            /\ UNCHANGED <<fsPaths, files>>
       ELSE LET homeArg == IF bodyHomeDir = <<>>
                             THEN ftpHomeBase \o username
                             ELSE bodyHomeDir
                sp == safePath(TrimPrefix(homeArg, ftpHomePrefix))
                homeDir == sp.path
                calls == <<
                    Discarded(c_useradd, <<a_m, a_d, homeDir, a_s, a_nologin, username>>),
                    Discarded(c_chpasswd, <<username \o a_colon \o bodyPassword>>),
                    Discarded(c_chown, <<username \o a_colon \o username, homeDir>>),
                    Discarded(c_systemctl, <<a_restart, a_vsftpd>>) >>
            IN /\ LineCount(Content(files, vsftpdUserListFile)) < MaxFileLines
               /\ \E appendOk \in BOOLEAN :
                    /\ files' = IF appendOk
                                THEN appendLine(files, vsftpdUserListFile, username)
                                ELSE files
                    /\ resp' = Response("CreateFTPUser", 201, calls,
                                   IF appendOk THEN {vsftpdUserListFile} ELSE {},
                                   <<username>>, <<sp>>, FALSE)
               /\ UNCHANGED fsPaths

\* DELETE /api/ftp/{username}
DeleteFTPUser(paramUsername) ==
    LET username == Sanitize(paramUsername)
    IN IF username = <<>>
       THEN /\ resp' = Response("DeleteFTPUser", 400, <<>>, {}, <<username>>, <<>>, FALSE)
            /\ UNCHANGED <<fsPaths, files>>
       ELSE /\ \E writeOk \in BOOLEAN :
                LET after == IF writeOk
                             THEN removeLine(files, vsftpdUserListFile, username)
                             ELSE files
                IN /\ files' = after
                   /\ resp' = Response("DeleteFTPUser", 200,
                                  << Discarded(c_userdel, <<username>>),
                                     Discarded(c_systemctl, <<a_restart, a_vsftpd>>) >>,
                                  IF vsftpdUserListFile \in DOMAIN files /\ writeOk
                                  THEN {vsftpdUserListFile} ELSE {},
                                  <<username>>, <<>>, FALSE)
            /\ UNCHANGED fsPaths

(***************************************************************************)
(* Account handlers (users.go)                                             *)
(***************************************************************************)

allowedShells == {a_bin_bash, a_bin_sh, a_nologin}

\* DELETE /api/users/{username}
DeleteUser(paramUsername) ==
    LET username == Sanitize(paramUsername)
    IN /\ IF username = <<>> \/ username = a_root
          THEN resp' = Response("DeleteUser", 400, <<>>, {}, <<username>>, <<>>, FALSE)
          ELSE \E exitOk \in BOOLEAN :
                LET ret == RunCmd(c_userdel, <<a_r, username>>, exitOk)
                IN resp' = Response("DeleteUser", IF ret.err # "nil" THEN 500 ELSE 200,
                               <<CallLog(ret)>>, {}, <<username>>, <<>>, FALSE)
       /\ UNCHANGED <<fsPaths, files>>

\* PUT /api/users/{username}
UpdateUser(paramUsername, bodyPassword, bodyShell) ==
    LET username == Sanitize(paramUsername)
    IN /\ \E pwOk \in (IF bodyPassword = <<>> THEN {TRUE} ELSE BOOLEAN),
             shOk \in (IF bodyShell \in allowedShells THEN BOOLEAN ELSE {TRUE}) :
            LET pwCall == RunCmd(c_chpasswd, <<username \o a_colon \o bodyPassword>>, pwOk)
                shCall == RunCmd(c_usermod, <<a_s, bodyShell, username>>, shOk)
                afterPw == IF bodyPassword # <<>> THEN <<CallLog(pwCall)>> ELSE <<>>
                Reply(status, calls) ==
                    Response("UpdateUser", status, calls, {}, <<username>>, <<>>, FALSE)
            IN resp' =
                IF bodyPassword # <<>> /\ Len(bodyPassword) < 8
                THEN Reply(400, <<>>)
                ELSE IF bodyPassword # <<>> /\ pwCall.err # "nil"
                THEN Reply(500, afterPw)
                ELSE IF bodyShell # <<>> /\ bodyShell \notin allowedShells
                THEN Reply(400, afterPw)
                ELSE IF bodyShell # <<>> /\ shCall.err # "nil"
                THEN Reply(500, afterPw \o <<CallLog(shCall)>>)
                ELSE Reply(200, afterPw \o
                                (IF bodyShell # <<>> THEN <<CallLog(shCall)>> ELSE <<>>))
       /\ UNCHANGED <<fsPaths, files>>

\* POST /api/users/{username}/suspend
SuspendUser(paramUsername) ==
    LET username == Sanitize(paramUsername)
    IN /\ IF username = a_root
          THEN resp' = Response("SuspendUser", 403, <<>>, {}, <<username>>, <<>>, FALSE)
          ELSE \E exitOk \in BOOLEAN :
                LET ret == RunCmd(c_usermod, <<a_L, username>>, exitOk)
                IN resp' = Response("SuspendUser", IF ret.err # "nil" THEN 500 ELSE 200,
                               <<CallLog(ret)>>, {}, <<username>>, <<>>, FALSE)
       /\ UNCHANGED <<fsPaths, files>>

\* POST /api/users/{username}/activate
ActivateUser(paramUsername) ==
    LET username == Sanitize(paramUsername)
    IN /\ \E exitOk \in BOOLEAN :
            LET ret == RunCmd(c_usermod, <<a_U, username>>, exitOk)
            IN resp' = Response("ActivateUser", IF ret.err # "nil" THEN 500 ELSE 200,
                           <<CallLog(ret)>>, {}, <<username>>, <<>>, FALSE)
       /\ UNCHANGED <<fsPaths, files>>

(***************************************************************************)
(* Database handlers (databases.go)                                        *)
(***************************************************************************)

\* mysqlArgs: env holds MYSQL_USER and MYSQL_PASSWORD, empty when unset.
mysqlArgs(env, extraArgs) ==
    LET user == IF env.user = <<>> THEN a_root ELSE env.user
        base == <<a_u \o user>> \o
                (IF env.pass # <<>> THEN <<db_p \o env.pass>> ELSE <<>>)
    IN base \o extraArgs

skipSystem == {db_information_schema, db_performance_schema, c_mysql, db_sys}

protected == {c_mysql, db_information_schema, db_performance_schema, db_sys}

getDatabaseSize(env, name) ==
    Discarded(c_mysql, mysqlArgs(env, <<a_e, sql_size_query \o name \o sql_end_string,
                                        a_skip_column_names, a_s>>))

getDatabaseTableCount(env, name) ==
    Discarded(c_mysql, mysqlArgs(env, <<name, a_e,
                                        sql_count_query \o name \o sql_end_string,
                                        a_skip_column_names, a_s>>))

\* The calls of the loop of ListDatabases over the names mysql printed.
RECURSIVE DatabaseCalls(_, _)
DatabaseCalls(env, names) ==
    IF names = <<>> THEN <<>>
    ELSE (IF Head(names) = <<>> \/ Head(names) \in skipSystem
          THEN <<>>
          ELSE <<getDatabaseSize(env, Head(names)),
                 getDatabaseTableCount(env, Head(names))>>)
         \o DatabaseCalls(env, Tail(names))

\* GET /api/databases; listing is what mysql prints when it runs.
ListDatabases(env, listing) ==
    /\ \E exitOk \in BOOLEAN :
        LET ret == RunCmd(c_mysql,
                          mysqlArgs(env, <<a_e, sql_show_databases,
                                           a_skip_column_names, a_s>>),
                          exitOk)
        IN resp' = IF ret.err # "nil"
                   THEN Response("ListDatabases", 500, <<CallLog(ret)>>, {}, <<>>, <<>>, FALSE)
                   ELSE Response("ListDatabases", 200,
                            <<CallLog(ret)>> \o DatabaseCalls(env, listing),
                            {}, <<>>, <<>>, FALSE)
    /\ UNCHANGED <<fsPaths, files>>

\* POST /api/databases
CreateDatabase(env, reqName, reqDBUser, reqPassword, reqHost) ==
    LET dbName == Sanitize(reqName)
        dbUser == Sanitize(reqDBUser)
        host == Sanitize(IF reqHost = <<>> THEN a_localhost ELSE reqHost)
        grantSQL == sql_create_user \o dbUser \o sql_at \o host \o sql_identified_by
                    \o reqPassword \o sql_stmt_sep
                    \o sql_grant_all \o dbName \o sql_to \o dbUser \o sql_at \o host
                    \o sql_stmt_sep \o sql_flush_privileges
    IN /\ IF dbName = <<>>
          THEN resp' = Response("CreateDatabase", 400, <<>>, {}, <<dbName>>, <<>>, FALSE)
          ELSE \E exitOk \in BOOLEAN :
                LET ret == RunCmd(c_mysql,
                                  mysqlArgs(env, <<a_e, sql_create_database \o dbName
                                                        \o sql_charset>>),
                                  exitOk)
                IN resp' =
                    IF ret.err # "nil"
                    THEN Response("CreateDatabase", 500, <<CallLog(ret)>>, {},
                             <<dbName>>, <<>>, FALSE)
                    ELSE Response("CreateDatabase", 201,
                             <<CallLog(ret)>> \o
                                (IF dbUser # <<>> /\ reqPassword # <<>>
                                 THEN <<Discarded(c_mysql, mysqlArgs(env, <<a_e, grantSQL>>))>>
                                 ELSE <<>>),
                             {}, <<dbName>>, <<>>, FALSE)
       /\ UNCHANGED <<fsPaths, files>>

\* DELETE /api/databases/{name}
DropDatabase(env, paramName) ==
    LET name == Sanitize(paramName)
    IN /\ IF name = <<>>
          THEN resp' = Response("DropDatabase", 400, <<>>, {}, <<name>>, <<>>, FALSE)
          ELSE IF name \in protected
          THEN resp' = Response("DropDatabase", 403, <<>>, {}, <<name>>, <<>>, FALSE)
          ELSE \E exitOk \in BOOLEAN :
                LET ret == RunCmd(c_mysql,
                                  mysqlArgs(env, <<a_e, sql_drop_database \o name
                                                        \o sql_end_quoted>>),
                                  exitOk)
                IN resp' = Response("DropDatabase", IF ret.err # "nil" THEN 500 ELSE 200,
                               <<CallLog(ret)>>, {}, <<name>>, <<>>, FALSE)
       /\ UNCHANGED <<fsPaths, files>>

(***************************************************************************)
(* Mail handlers (email.go)                                                *)
(***************************************************************************)

\* strings.SplitN(s, "@", 2) for an s that holds an "@".
SplitN2(s) ==
    LET parts == Split(s, "@")
    IN <<parts[1], JoinSep(Tail(parts), <<"@">>)>>

reloadPostfix == Discarded(c_systemctl, <<a_reload, a_postfix>>)

\* POST /api/email/mailboxes
CreateMailbox(bodyEmail, bodyPassword, bodyQuota) ==
    IF ~Contains(bodyEmail, <<"@">>) \/ Len(bodyPassword) < 8
    THEN /\ resp' = Response("CreateMailbox", 400, <<>>, {}, <<>>, <<>>, FALSE)
         /\ UNCHANGED <<fsPaths, files>>
    ELSE LET parts == SplitN2(bodyEmail)
             user == Sanitize(parts[1])
             domain == Sanitize(parts[2])
             email == user \o <<"@">> \o domain
             quota == IF bodyQuota = <<>> THEN a_1G ELSE bodyQuota
             mapLine == email \o <<" ">> \o domain \o <<"/">> \o user \o <<"/">>
             mailDir == FilepathJoin(<<mailStorageBase, domain, user>>)
             dirCalls == <<
                 Discarded(c_mkdir, <<a_p, mailDir>>),
                 Discarded(c_mkdir, <<a_p, mailDir \o sub_cur>>),
                 Discarded(c_mkdir, <<a_p, mailDir \o sub_new>>),
                 Discarded(c_mkdir, <<a_p, mailDir \o sub_tmp>>),
                 Discarded(c_chown, <<a_R, a_vmail,
                                      FilepathJoin(<<mailStorageBase, domain>>)>>) >>
             passwdLine == email \o dovecot_plain \o bodyPassword
                           \o dovecot_quota_rule \o quota
             withMap == appendLine(files, postfixVirtualMapsFile, mapLine)
         IN /\ LineCount(Content(files, postfixVirtualMapsFile)) < MaxFileLines
            /\ \E mapOk \in BOOLEAN, passwdOk \in BOOLEAN :
                IF ~mapOk
                THEN /\ files' = files
                     /\ resp' = Response("CreateMailbox", 500, <<>>, {},
                                    <<user, domain>>, <<>>, FALSE)
                ELSE IF ~passwdOk
                THEN /\ files' = withMap
                     /\ resp' = Response("CreateMailbox", 500, dirCalls,
                                    {postfixVirtualMapsFile}, <<user, domain>>, <<>>, FALSE)
                ELSE /\ files' = appendLine(withMap, dovecotPasswdFile, passwdLine)
                     /\ resp' = Response("CreateMailbox", 201,
                                    dirCalls \o
                                        <<Discarded(c_postmap, <<postfixVirtualMapsFile>>),
                                          reloadPostfix>>,
                                    {postfixVirtualMapsFile, dovecotPasswdFile},
                                    <<user, domain>>, <<>>, FALSE)
            /\ UNCHANGED fsPaths

\* GET /api/email/queue
GetMailQueue ==
    /\ \E exitOk \in BOOLEAN :
        LET ret == RunCmd(c_postqueue, <<a_p>>, exitOk)
        IN resp' = Response("GetMailQueue", IF ret.err # "nil" THEN 500 ELSE 200,
                       <<CallLog(ret)>>, {}, <<>>, <<>>, FALSE)
    /\ UNCHANGED <<fsPaths, files>>

\* POST /api/email/queue/flush
FlushMailQueue ==
    /\ resp' = Response("FlushMailQueue", 200, <<Discarded(c_postqueue, <<a_f>>)>>,
                   {}, <<>>, <<>>, FALSE)
    /\ UNCHANGED <<fsPaths, files>>

(***************************************************************************)
(* Mail domain handlers                                                    *)
(***************************************************************************)

MaxMailDomains == 2

\* countMailboxesForDomain: the lines of the virtual map that hold
\* "@" + domain.
countMailboxesForDomain(fs, domain) ==
    Len(SelectSeq(Split(Content(fs, postfixVirtualMapsFile), "\n"),
                  LAMBDA line : Contains(line, <<"@">> \o domain)))

\* POST /api/email/domains
AddMailDomain(bodyDomain) ==
    LET domain == Sanitize(bodyDomain)
        mailDir == FilepathJoin(<<mailStorageBase, domain>>)
    IN IF domain = <<>>
       THEN /\ resp' = Response("AddMailDomain", 400, <<>>, {}, <<domain>>, <<>>, FALSE)
            /\ UNCHANGED <<fsPaths, files>>
       ELSE /\ LineCount(Content(files, postfixVirtualDomainsFile)) < MaxMailDomains
            /\ \E writeOk \in BOOLEAN :
                IF ~writeOk
                THEN /\ files' = files
                     /\ resp' = Response("AddMailDomain", 500, <<>>, {},
                                    <<domain>>, <<>>, FALSE)
                ELSE /\ files' = appendLine(files, postfixVirtualDomainsFile, domain)
                     /\ resp' = Response("AddMailDomain", 201,
                                    << Discarded(c_mkdir, <<a_p, mailDir>>),
                                       Discarded(c_chown, <<a_R, a_vmail, mailDir>>),
                                       reloadPostfix >>,
                                    {postfixVirtualDomainsFile}, <<domain>>, <<>>, FALSE)
            /\ UNCHANGED fsPaths

\* DELETE /api/email/domains/{domain}
DeleteMailDomain(paramDomain) ==
    LET domain == Sanitize(paramDomain)
    IN IF domain = <<>>
       THEN /\ resp' = Response("DeleteMailDomain", 400, <<>>, {}, <<domain>>, <<>>, FALSE)
            /\ UNCHANGED <<fsPaths, files>>
       ELSE /\ \E writeOk \in BOOLEAN :
                /\ files' = IF writeOk
                            THEN removeLine(files, postfixVirtualDomainsFile, domain)
                            ELSE files
                /\ resp' = Response("DeleteMailDomain", 200, <<reloadPostfix>>,
                               IF postfixVirtualDomainsFile \in DOMAIN files /\ writeOk
                               THEN {postfixVirtualDomainsFile} ELSE {},
                               <<domain>>, <<>>, FALSE)
            /\ UNCHANGED fsPaths

\* DELETE /api/email/mailboxes/{email}
DeleteMailbox(paramEmail) ==
    IF ~Contains(paramEmail, <<"@">>)
    THEN /\ resp' = Response("DeleteMailbox", 400, <<>>, {}, <<>>, <<>>, FALSE)
         /\ UNCHANGED <<fsPaths, files>>
    ELSE LET parts == SplitN2(paramEmail)
             user == Sanitize(parts[1])
             domain == Sanitize(parts[2])
             email == user \o <<"@">> \o domain
         IN /\ \E mapOk \in BOOLEAN, passwdOk \in BOOLEAN :
                LET afterMap == IF mapOk
                                THEN removeLine(files, postfixVirtualMapsFile, email)
                                ELSE files
                IN /\ files' = IF passwdOk
                               THEN removeLine(afterMap, dovecotPasswdFile, email)
                               ELSE afterMap
                   /\ resp' = Response("DeleteMailbox", 200,
                                  << Discarded(c_postmap, <<postfixVirtualMapsFile>>),
                                     reloadPostfix >>,
                                  {f \in {postfixVirtualMapsFile, dovecotPasswdFile} :
                                      /\ f \in DOMAIN files
                                      /\ IF f = postfixVirtualMapsFile THEN mapOk ELSE passwdOk},
                                  <<user, domain>>, <<>>, FALSE)
            /\ UNCHANGED fsPaths

(***************************************************************************)
(* DNS zone files                                                          *)
(***************************************************************************)

\* filepath.Join(bindZonesDir, domain+".db")
zoneFileOf(domain) == FilepathJoin(<<bindZonesDir, domain \o <<".", "d", "b">>>>)

\* bindService: the unit named by BIND_SERVICE, "named" when it is not set.
bindService(bindEnv) == IF bindEnv # <<>> THEN bindEnv ELSE a_named

\* strings.ToUpper on the letters a-z.
ToUpper(s) ==
    [i \in 1..Len(s) |->
        IF Ord[s[i]] >= Ord["a"] /\ Ord[s[i]] <= Ord["z"]
        THEN CHOOSE c \in DOMAIN Ord : Ord[c] = Ord[s[i]] - 32
        ELSE s[i]]

\* A decimal number without sign.
IsDigits(s) ==
    s # <<>> /\ \A i \in 1..Len(s) : Ord[s[i]] >= Ord["0"] /\ Ord[s[i]] <= Ord["9"]

RECURSIVE DigitsValue(_)
DigitsValue(s) ==
    IF s = <<>> THEN 0
    ELSE DigitsValue(SubSeq(s, 1, Len(s) - 1)) * 10 + (Ord[s[Len(s)]] - Ord["0"])

\* strconv.Atoi(s) returns no error.
AtoiOk(s) ==
    IF s # <<>> /\ Head(s) \in {"+", "-"} THEN IsDigits(Tail(s)) ELSE IsDigits(s)

\* strconv.ParseInt(s, 10, 64) with the error dropped: 0 when s is not a
\* number.
ParseInt(s) ==
    IF ~AtoiOk(s) THEN 0
    ELSE IF Head(s) = "-" THEN 0 - DigitsValue(Tail(s))
    ELSE IF Head(s) = "+" THEN DigitsValue(Tail(s))
    ELSE DigitsValue(s)

\* time.Now().Format("2006010215"): year, month, day and hour of the hour
\* number t counted from 2024-06-01 00:00.
TwoDigits(n) ==
    LET digits == <<"0", "1", "2", "3", "4", "5", "6", "7", "8", "9">>
    IN <<digits[(n \div 10) + 1], digits[(n % 10) + 1]>>

timeFormat(t) ==
    <<"2", "0", "2", "4", "0", "6">> \o TwoDigits(1 + (t \div 24)) \o TwoDigits(t % 24)

buildZoneFile(domain, ip, serial) ==
    <<"$", "T", "T", "L", " ", "3", "6", "0", "0", "\n", "@", " ",
      " ", " ", "I", "N", " ", " ", "S", "O", "A", " ", "n", "s",
      "1", ".">>
    \o domain
    \o <<".", " ", "a", "d", "m", "i", "n", ".">>
    \o domain
    \o <<".", " ", "(", "\n", " ", " ", " ", " ", " ", " ", " ", " ",
      " ", " ", " ", " ">>
    \o serial
    \o <<" ", " ", ";", " ", "S", "e", "r", "i", "a", "l", "\n", " ",
      " ", " ", " ", " ", " ", " ", " ", " ", " ", " ", " ", "3",
      "6", "0", "0", " ", " ", " ", " ", " ", " ", " ", " ", ";",
      " ", "R", "e", "f", "r", "e", "s", "h", "\n", " ", " ",
      " ", " ", " ", " ", " ", " ", " ", " ", " ", " ", "1", "8",
      "0", "0", " ", " ", " ", " ", " ", " ", " ", " ", ";", " ",
      "R", "e", "t", "r", "y", "\n", " ", " ", " ", " ", " ",
      " ", " ", " ", " ", " ", " ", " ", "6", "0", "4", "8", "0",
      "0", " ", " ", " ", " ", " ", " ", ";", " ", "E", "x", "p",
      "i", "r", "e", "\n", " ", " ", " ", " ", " ", " ", " ",
      " ", " ", " ", " ", " ", "3", "0", "0", " ", ")", " ", " ",
      " ", " ", " ", " ", " ", ";", " ", "M", "i", "n", "i", "m",
      "u", "m", " ", "T", "T", "L", "\n", "\n", ";", " ", "N",
      "a", "m", "e", " ", "S", "e", "r", "v", "e", "r", "s",
      "\n", "@", " ", " ", " ", " ", " ", " ", " ", "I", "N",
      " ", " ", "N", "S", " ", " ", "n", "s", "1", ".">>
    \o domain
    \o <<".", "\n", "@", " ", " ", " ", " ", " ", " ", " ", "I", "N",
      " ", " ", "N", "S", " ", " ", "n", "s", "2", ".">>
    \o domain
    \o <<".", "\n", "\n", ";", " ", "A", " ", "R", "e", "c", "o", "r",
      "d", "s", "\n", "@", " ", " ", " ", " ", " ", " ", " ",
      "I", "N", " ", " ", "A", " ", " ", " ">>
    \o ip
    \o <<"\n", "w", "w", "w", " ", " ", " ", " ", " ", "I", "N", " ",
      " ", "A", " ", " ", " ">>
    \o ip
    \o <<"\n", "n", "s", "1", " ", " ", " ", " ", " ", "I", "N", " ",
      " ", "A", " ", " ", " ">>
    \o ip
    \o <<"\n", "n", "s", "2", " ", " ", " ", " ", " ", "I", "N", " ",
      " ", "A", " ", " ", " ">>
    \o ip
    \o <<"\n", "\n", ";", " ", "M", "a", "i", "l", "\n", "@", " ", " ",
      " ", " ", " ", " ", " ", "I", "N", " ", " ", "M", "X", " ",
      " ", "1", "0", " ", "m", "a", "i", "l", ".">>
    \o domain
    \o <<".", "\n", "m", "a", "i", "l", " ", " ", " ", " ", "I", "N",
      " ", " ", "A", " ", " ", " ">>
    \o ip
    \o <<"\n", "\n", ";", " ", "S", "P", "F", "\n", "@", " ", " ", " ",
      " ", " ", " ", " ", "I", "N", " ", " ", "T", "X", "T", " ",
      "\"", "v", "=", "s", "p", "f", "1", " ", "m", "x", " ",
      "a", " ", "i", "p", "4", ":">>
    \o ip
    \o <<" ", "-", "a", "l", "l", "\"", "\n">>

\* The lines parseZoneFile passes over: blank lines, comments and $
\* directives.
zoneSkips(line) ==
    line = <<>> \/ HasPrefix(line, <<";">>) \/ HasPrefix(line, <<"$">>)

isSerialLine(line) == Contains(line, <<"S", "e", "r", "i", "a", "l">>)

\* A line parseZoneFile takes for a record: name ttl IN type value.
isRecordLine(line) ==
    LET parts == Fields(line)
    IN /\ ~zoneSkips(line)
       /\ ~isSerialLine(line)
       /\ Len(parts) >= 4
       /\ parts[3] = <<"I", "N">>

zoneRecord(line) ==
    LET parts == Fields(line)
    IN [Name |-> parts[1],
        TTL |-> IF AtoiOk(parts[2]) THEN parts[2] ELSE <<>>,
        Type |-> parts[4],
        Value |-> JoinSep(SubSeq(parts, 5, Len(parts)), <<" ">>)]

\* parseZoneFile on the content of the zone file.
parseZoneFile(content, domain) ==
    LET split == Split(content, "\n")
        lines == [i \in 1..Len(split) |-> TrimSpace(split[i])]
        serials == SelectSeq(lines, LAMBDA l : ~zoneSkips(l) /\ isSerialLine(l))
        recs == SelectSeq(lines, isRecordLine)
    IN [Domain |-> domain,
        Serial |-> IF serials = <<>> THEN 0
                   ELSE ParseInt(Fields(serials[Len(serials)])[1]),
        Records |-> [i \in 1..Len(recs) |-> zoneRecord(recs[i])]]

\* strings.Replace(s, old, new, 1) for a non-empty old.
Replace1(s, old, new) ==
    LET at == {i \in 1..(Len(s) - Len(old) + 1) : SubSeq(s, i, i + Len(old) - 1) = old}
    IN IF at = {} THEN s
       ELSE LET i == CHOOSE j \in at : \A k \in at : j <= k
            IN SubSeq(s, 1, i - 1) \o new \o SubSeq(s, i + Len(old), Len(s))

\* bumpSerial with newSerial the formatted time of the call.
bumpSerial(zoneContent, newSerial) ==
    LET lines == Split(zoneContent, "\n")
        at == {i \in 1..Len(lines) :
                  \/ isSerialLine(lines[i])
                  \/ Contains(lines[i], <<"s", "e", "r", "i", "a", "l">>)}
    IN IF at = {} THEN zoneContent
       ELSE LET i == CHOOSE j \in at : \A k \in at : j <= k
                parts == Fields(lines[i])
            IN IF parts = <<>> THEN zoneContent
               ELSE JoinSep([lines EXCEPT ![i] = Replace1(lines[i], parts[1], newSerial)],
                            <<"\n">>)

\* The entry addZoneToNamedConf appends to named.conf.local.
namedConfEntry(domain, zoneFile) ==
    <<"\n", "z", "o", "n", "e", " ", "\"">> \o domain
    \o <<"\"", " ", "{", "\n", " ", " ", " ", " ", "t", "y", "p", "e", " ",
         "m", "a", "s", "t", "e", "r", ";", "\n", " ", " ", " ", " ",
         "f", "i", "l", "e", " ", "\"">> \o zoneFile
    \o <<"\"", ";", "\n", "}", ";", "\n">>

\* POST /api/dns
CreateDNSZone(bodyDomain, bodyIP, bindEnv) ==
    LET domain == Sanitize(bodyDomain)
        serial == timeFormat(now)
        zoneFile == zoneFileOf(domain)
        written == (zoneFile :> buildZoneFile(domain, bodyIP, serial)) @@ files
        listed == (bindNamedLocal :> (Content(files, bindNamedLocal)
                                      \o namedConfEntry(domain, zoneFile))) @@ written
    IN /\ UNCHANGED fsPaths
       /\ IF domain = <<>> \/ bodyIP = <<>>
          THEN /\ resp' = Response("CreateDNSZone", 400, <<>>, {}, <<domain>>, <<>>, FALSE)
               /\ UNCHANGED files
          ELSE \E writeOk \in BOOLEAN, confOk \in BOOLEAN, exitOk \in BOOLEAN :
                LET ret == RunCmd(c_systemctl, <<a_reload, bindService(bindEnv)>>, exitOk)
                IN IF ~writeOk
                   THEN /\ resp' = Response("CreateDNSZone", 500, <<>>, {}, <<domain>>, <<>>, FALSE)
                        /\ UNCHANGED files
                   ELSE IF ~confOk
                   THEN /\ resp' = Response("CreateDNSZone", 500, <<>>, {zoneFile},
                                       <<domain>>, <<>>, FALSE)
                        /\ files' = written
                   ELSE /\ resp' = Response("CreateDNSZone",
                                       IF ret.err # "nil" THEN 500 ELSE 201,
                                       <<CallLog(ret)>>, {zoneFile, bindNamedLocal},
                                       <<domain>>, <<>>, FALSE)
                        /\ files' = listed

allowedTypes ==
    {<<"A">>, <<"A", "A", "A", "A">>, <<"C", "N", "A", "M", "E">>, <<"M", "X">>,
     <<"T", "X", "T">>, <<"N", "S">>, <<"P", "T", "R">>, <<"S", "R", "V">>}

\* POST /api/dns/{domain}/records
AddDNSRecord(paramDomain, rec, bindEnv) ==
    LET domain == Sanitize(paramDomain)
        type == ToUpper(rec.Type)
        ttl == IF rec.TTL = <<>> THEN dns_default_ttl ELSE rec.TTL
        zoneFile == zoneFileOf(domain)
        newLine == rec.Name \o <<"\t">> \o ttl \o <<"\t", "I", "N", "\t">> \o type
                   \o <<"\t">> \o rec.Value
    IN /\ UNCHANGED fsPaths
       /\ IF type \notin allowedTypes
          THEN /\ resp' = Response("AddDNSRecord", 400, <<>>, {}, <<domain>>, <<>>, FALSE)
               /\ UNCHANGED files
          ELSE IF zoneFile \notin DOMAIN files
          THEN /\ resp' = Response("AddDNSRecord", 404, <<>>, {}, <<domain>>, <<>>, FALSE)
               /\ UNCHANGED files
          ELSE \E writeOk \in BOOLEAN :
                IF ~writeOk
                THEN /\ resp' = Response("AddDNSRecord", 500, <<>>, {}, <<domain>>, <<>>, FALSE)
                     /\ UNCHANGED files
                ELSE /\ files' = [files EXCEPT ![zoneFile] =
                                    bumpSerial(@ \o <<"\n">> \o newLine \o <<"\n">>,
                                               timeFormat(now))]
                     /\ resp' = Response("AddDNSRecord", 201,
                                    <<Discarded(c_systemctl, <<a_reload, bindService(bindEnv)>>)>>,
                                    {zoneFile}, <<domain>>, <<>>, FALSE)

\* DELETE /api/dns/{domain}/records
DeleteDNSRecord(paramDomain, bodyName, bodyType, bindEnv) ==
    LET domain == Sanitize(paramDomain)
        zoneFile == zoneFileOf(domain)
    IN /\ UNCHANGED fsPaths
       /\ IF zoneFile \notin DOMAIN files
          THEN /\ resp' = Response("DeleteDNSRecord", 404, <<>>, {}, <<domain>>, <<>>, FALSE)
               /\ UNCHANGED files
          ELSE \E writeOk \in BOOLEAN :
                LET kept == SelectSeq(Split(files[zoneFile], "\n"),
                                LAMBDA line : ~(Contains(line, bodyName)
                                                /\ Contains(line, bodyType)))
                    updated == bumpSerial(JoinSep(kept, <<"\n">>), timeFormat(now))
                IN /\ files' = IF writeOk THEN [files EXCEPT ![zoneFile] = updated]
                               ELSE files
                   /\ resp' = Response("DeleteDNSRecord", 200,
                                  <<Discarded(c_systemctl, <<a_reload, bindService(bindEnv)>>)>>,
                                  IF writeOk THEN {zoneFile} ELSE {},
                                  <<domain>>, <<>>, FALSE)

(***************************************************************************)
(* Crontab helpers (the cron API file)                                     *)
(***************************************************************************)

\* fmt.Sprintf("%s/%s", cronDir, user)
crontabFile(user) == cronDir \o <<"/">> \o user

\* The lines parseCronLines passes over: blank, comment and directive lines.
parseSkips(line) ==
    \/ line = <<>>
    \/ HasPrefix(line, <<"#">>)
    \/ HasPrefix(line, <<"M", "A", "I", "L", "T", "O">>)
    \/ HasPrefix(line, <<"P", "A", "T", "H">>)
    \/ HasPrefix(line, <<"S", "H", "E", "L", "L">>)

\* The loop of parseCronLines from job number id on.  The Schedule text of
\* a job is derived from its five fields and is left out.
RECURSIVE parseCronFrom(_, _, _)
parseCronFrom(lines, id, user) ==
    IF lines = <<>> THEN <<>>
    ELSE LET line == TrimSpace(Head(lines))
             parts == Fields(line)
         IN IF parseSkips(line) \/ Len(parts) < 6
            THEN parseCronFrom(Tail(lines), id, user)
            ELSE << [ID |-> id, Minute |-> parts[1], Hour |-> parts[2],
                     Day |-> parts[3], Month |-> parts[4], Weekday |-> parts[5],
                     Command |-> JoinSep(SubSeq(parts, 6, Len(parts)), <<" ">>),
                     User |-> user, Enabled |-> TRUE] >>
                 \o parseCronFrom(Tail(lines), id + 1, user)

parseCronLines(content, user) == parseCronFrom(Split(content, "\n"), 1, user)

\* readCrontab: no jobs when the file cannot be read.
readCrontab(fs, user) ==
    IF crontabFile(user) \notin DOMAIN fs THEN <<>>
    ELSE parseCronLines(fs[crontabFile(user)], user)

\* appendCrontab: the file after the write.
appendCrontab(fs, user, line) == appendLine(fs, crontabFile(user), line)

\* What removeCronLine counts as a job line.
removeIsJob(line) ==
    LET trimmed == TrimSpace(line)
    IN /\ trimmed # <<>>
       /\ ~HasPrefix(trimmed, <<"#">>)
       /\ ~HasPrefix(trimmed, <<"M", "A", "I", "L", "T", "O">>)
       /\ ~HasPrefix(trimmed, <<"P", "A", "T", "H">>)

\* The loop of removeCronLine: the lines kept.
RECURSIVE removeCronFrom(_, _, _)
removeCronFrom(lines, jobIdx, id) ==
    IF lines = <<>> THEN <<>>
    ELSE IF removeIsJob(Head(lines))
         THEN (IF jobIdx + 1 = id THEN <<>> ELSE <<Head(lines)>>)
              \o removeCronFrom(Tail(lines), jobIdx + 1, id)
    ELSE <<Head(lines)>> \o removeCronFrom(Tail(lines), jobIdx, id)

\* removeCronLine: the content written back.
removeCronLine(content, id) ==
    JoinSep(removeCronFrom(Split(content, "\n"), 0, id), <<"\n">>)

\* What updateCronLine counts as a job line.
updateIsJob(line) ==
    LET trimmed == TrimSpace(line)
    IN trimmed # <<>> /\ ~HasPrefix(trimmed, <<"#">>)

\* The loop of updateCronLine: the first line numbered id is replaced and
\* the loop ends.
RECURSIVE updateCronFrom(_, _, _, _)
updateCronFrom(lines, jobIdx, id, newLine) ==
    IF lines = <<>> THEN <<>>
    ELSE IF updateIsJob(Head(lines))
         THEN (IF jobIdx + 1 = id
               THEN <<newLine>> \o Tail(lines)
               ELSE <<Head(lines)>> \o updateCronFrom(Tail(lines), jobIdx + 1, id, newLine))
    ELSE <<Head(lines)>> \o updateCronFrom(Tail(lines), jobIdx, id, newLine)

\* updateCronLine: the content written back.
updateCronLine(content, id, newLine) ==
    JoinSep(updateCronFrom(Split(content, "\n"), 0, id, newLine), <<"\n">>)

\* isValidCronField
isValidCronField(field) ==
    /\ field # <<>>
    /\ \A i \in 1..Len(field) :
        \/ field[i] \in {"*", "/", "-", ","}
        \/ (Ord[field[i]] >= Ord["0"] /\ Ord[field[i]] <= Ord["9"])

\* humanReadableCron
humanReadableCron(min, hour, day, month, weekday) ==
    IF min = <<"*">> /\ hour = <<"*">> /\ day = <<"*">> /\ month = <<"*">>
       /\ weekday = <<"*">>
    THEN <<"E", "v", "e", "r", "y", " ", "m", "i", "n", "u", "t", "e">>
    ELSE IF min = <<"0">> /\ hour = <<"*">>
    THEN <<"E", "v", "e", "r", "y", " ", "h", "o", "u", "r">>
    ELSE IF min = <<"0">> /\ hour = <<"0">> /\ day = <<"*">> /\ month = <<"*">>
            /\ weekday = <<"*">>
    THEN <<"D", "a", "i", "l", "y", " ", "a", "t", " ", "m", "i", "d", "n", "i", "g", "h", "t">>
    ELSE IF min = <<"0">> /\ hour = <<"0">> /\ day = <<"*">> /\ month = <<"*">>
            /\ weekday = <<"0">>
    THEN <<"W", "e", "e", "k", "l", "y", " ", "o", "n", " ", "S", "u", "n", "d", "a", "y">>
    ELSE IF min = <<"0">> /\ hour = <<"0">> /\ day = <<"1">>
    THEN <<"M", "o", "n", "t", "h", "l", "y", " ", "o", "n", " ", "t", "h", "e", " ", "1", "s", "t">>
    ELSE min \o <<" ">> \o hour \o <<" ">> \o day \o <<" ">> \o month
         \o <<" ">> \o weekday

\* The id the handlers compute from the text of the {id} parameter: no
\* character is checked.
RECURSIVE parseIdFrom(_, _)
parseIdFrom(s, id) ==
    IF s = <<>> THEN id
    ELSE parseIdFrom(Tail(s), id * 10 + (Ord[Head(s)] - Ord["0"]))

parseId(idStr) == parseIdFrom(idStr, 0)

(***************************************************************************)
(* Crontab handlers                                                        *)
(***************************************************************************)

\* fmt.Sprintf("%s %s %s %s %s %s", ...)
cronLine(req) ==
    req.Minute \o <<" ">> \o req.Hour \o <<" ">> \o req.Day \o <<" ">>
    \o req.Month \o <<" ">> \o req.Weekday \o <<" ">> \o req.Command

\* What a crontab handler answers: the response, the user whose crontab it
\* addressed, the job number and the body it decoded (<<>> when the request
\* has none), the line it computed from the body, and the jobs listed.
CronResponse(op, status, writes, user, id, req, jobs) ==
    [op |-> op, status |-> status, calls |-> <<>>, writes |-> writes,
     idents |-> <<user>>, paths |-> <<>>, fsChanged |-> FALSE,
     id |-> id, req |-> req,
     line |-> IF req = <<>> THEN <<>> ELSE cronLine(req), jobs |-> jobs]

\* The crontabs os.ReadDir(cronDir) finds, in the order of their names.
CronUsers == <<in_bob, a_root>>

ReadDirCron(fs) == SelectSeq(CronUsers, LAMBDA u : crontabFile(u) \in DOMAIN fs)

RECURSIVE readCrontabs(_, _)
readCrontabs(fs, users) ==
    IF users = <<>> THEN <<>>
    ELSE readCrontab(fs, Head(users)) \o readCrontabs(fs, Tail(users))

readSystemCrontab(fs) ==
    IF etcCrontab \notin DOMAIN fs THEN <<>>
    ELSE parseCronLines(fs[etcCrontab], <<"s", "y", "s", "t", "e", "m">>)

\* user of CreateCronJob and UpdateCronJob: "root" when the body names none,
\* then sanitized.
bodyCronUser(reqUser) == Sanitize(IF reqUser = <<>> THEN a_root ELSE reqUser)

\* user of DeleteCronJob: sanitized, then "root" when nothing is left.
queryCronUser(queryUser) ==
    LET user == Sanitize(queryUser) IN IF user = <<>> THEN a_root ELSE user

\* GET /api/cron?user=
ListCronJobs(queryUser) ==
    LET jobs == IF queryUser # <<>>
                THEN readCrontab(files, Sanitize(queryUser))
                ELSE readCrontabs(files, ReadDirCron(files))
                     \o readSystemCrontab(files)
    IN /\ resp' = CronResponse("ListCronJobs", 200, {}, Sanitize(queryUser),
                               0, <<>>, jobs)
       /\ filesBefore' = files
       /\ UNCHANGED <<fsPaths, files, cronLog>>

\* POST /api/cron
CreateCronJob(req) ==
    LET user == bodyCronUser(req.User)
        line == cronLine(req)
        file == crontabFile(user)
    IN /\ filesBefore' = files
       /\ UNCHANGED fsPaths
       /\ IF \/ req.Command = <<>>
             \/ \E field \in {req.Minute, req.Hour, req.Day, req.Month, req.Weekday} :
                    ~isValidCronField(field)
          THEN /\ resp' = CronResponse("CreateCronJob", 400, {}, user, 0, req, <<>>)
               /\ UNCHANGED <<files, cronLog>>
          ELSE \E writeOk \in (IF user = <<>> THEN {FALSE} ELSE BOOLEAN) :
                IF writeOk
                THEN /\ files' = appendCrontab(files, user, line)
                     /\ resp' = CronResponse("CreateCronJob", 201, {file}, user, 0, req, <<>>)
                     /\ cronLog' = Append(cronLog, [op |-> "CreateCronJob", id |-> 0, req |-> req])
                ELSE /\ resp' = CronResponse("CreateCronJob", 500, {}, user, 0, req, <<>>)
                     /\ UNCHANGED <<files, cronLog>>

\* DELETE /api/cron/{id}?user=
DeleteCronJob(idStr, queryUser) ==
    LET user == queryCronUser(queryUser)
        id == parseId(idStr)
        file == crontabFile(user)
    IN /\ filesBefore' = files
       /\ UNCHANGED fsPaths
       /\ IF file \notin DOMAIN files
          THEN /\ resp' = CronResponse("DeleteCronJob", 500, {}, user, id, <<>>, <<>>)
               /\ UNCHANGED <<files, cronLog>>
          ELSE \E writeOk \in BOOLEAN :
                IF writeOk
                THEN /\ files' = [files EXCEPT ![file] = removeCronLine(@, id)]
                     /\ resp' = CronResponse("DeleteCronJob", 200, {file}, user, id, <<>>, <<>>)
                     /\ cronLog' = Append(cronLog, [op |-> "DeleteCronJob", id |-> id, req |-> <<>>])
                ELSE /\ resp' = CronResponse("DeleteCronJob", 500, {}, user, id, <<>>, <<>>)
                     /\ UNCHANGED <<files, cronLog>>

\* PUT /api/cron/{id}
UpdateCronJob(idStr, req) ==
    LET user == bodyCronUser(req.User)
        id == parseId(idStr)
        newLine == cronLine(req)
        file == crontabFile(user)
    IN /\ filesBefore' = files
       /\ UNCHANGED fsPaths
       /\ IF file \notin DOMAIN files
          THEN /\ resp' = CronResponse("UpdateCronJob", 500, {}, user, id, req, <<>>)
               /\ UNCHANGED <<files, cronLog>>
          ELSE \E writeOk \in BOOLEAN :
                IF writeOk
                THEN /\ files' = [files EXCEPT ![file] = updateCronLine(@, id, newLine)]
                     /\ resp' = CronResponse("UpdateCronJob", 200, {file}, user, id, req, <<>>)
                     /\ cronLog' = Append(cronLog, [op |-> "UpdateCronJob", id |-> id, req |-> req])
                ELSE /\ resp' = CronResponse("UpdateCronJob", 500, {}, user, id, req, <<>>)
                     /\ UNCHANGED <<files, cronLog>>

(***************************************************************************)
(* A request worker inside RunCmd (SpecRun).  The router wraps every       *)
(* handler in a 30 s timeout: the request's context is cancelled at the    *)
(* deadline.  RunCmd starts the program with exec.Command and waits in     *)
(* cmd.Run; it is handed no context.                                       *)
(***************************************************************************)

RequestTimeout == 30

TickSeconds == 10

MaxClock == 50

Workers == {1, 2}

RunNames == {c_uptime, c_curl}

IdleWorker ==
    [pc |-> "idle", deadline |-> 0, ctxDone |-> FALSE, hangs |-> FALSE, err |-> "none"]

\* The router takes a request: the timeout middleware derives the context
\* with its deadline and calls the handler.
ServeHTTP(w) ==
    /\ workers[w].pc = "idle"
    /\ workers' = [workers EXCEPT ![w] =
            [IdleWorker EXCEPT !.pc = "handler", !.deadline = clock + RequestTimeout]]
    /\ UNCHANGED clock

\* The handler calls RunCmd: validateCommand, then the program is started
\* and cmd.Run waits for it.  Whether the program ever exits is the
\* program's affair.
CallRunCmd(w, name) ==
    /\ workers[w].pc = "handler"
    /\ \E hangs \in BOOLEAN :
        LET verdict == validateCommand(name, <<>>)
        IN workers' = [workers EXCEPT ![w] =
                IF verdict # "nil"
                THEN [@ EXCEPT !.pc = "returned", !.err = verdict]
                ELSE [@ EXCEPT !.pc = "running", !.hangs = hangs]]
    /\ UNCHANGED clock

\* The program exits and cmd.Run returns.
CmdExits(w) ==
    /\ workers[w].pc = "running"
    /\ ~workers[w].hangs
    /\ \E exitOk \in BOOLEAN :
        workers' = [workers EXCEPT ![w] =
            [@ EXCEPT !.pc = "returned",
                      !.err = IF exitOk THEN "nil" ELSE "command failed"]]
    /\ UNCHANGED clock

\* The deadline passes: the request's context is cancelled.  Nothing in
\* RunCmd waits on the context.
DeadlineExpires(w) ==
    /\ workers[w].pc \in {"handler", "running", "returned"}
    /\ ~workers[w].ctxDone
    /\ clock >= workers[w].deadline
    /\ workers' = [workers EXCEPT ![w] = [@ EXCEPT !.ctxDone = TRUE]]
    /\ UNCHANGED clock

\* RunCmd has returned: the handler writes its response and the worker is
\* free again.
WriteResponse(w) ==
    /\ workers[w].pc = "returned"
    /\ workers' = [workers EXCEPT ![w] = IdleWorker]
    /\ UNCHANGED clock

Tick ==
    /\ clock < MaxClock
    /\ clock' = clock + TickSeconds
    /\ UNCHANGED workers

(***************************************************************************)
(* The values of the variables a specification does not use                *)
(***************************************************************************)

NoCall == [name |-> <<>>, args |-> <<>>, argv |-> <<>>, err |-> "no call"]

GateIdle ==
    /\ gateName = <<>>
    /\ gateArgs = <<>>
    /\ gateRet = NoCall
    /\ spawned = {}

SanIdle ==
    /\ raw = <<>>
    /\ clean = <<>>
    /\ twice = <<>>
    /\ sanStage = "in"

PathIdle == pathArg = <<>>

RunIdle ==
    /\ clock = 0
    /\ workers = [w \in Workers |-> IdleWorker]

NoProc == [started |-> FALSE, exit |-> 0, stdout |-> <<>>, stderr |-> <<>>]

NoOutput == [out |-> <<>>, err |-> "no call", msg |-> <<>>]

HistIdle ==
    /\ filesBefore = <<>>
    /\ cronLog = <<>>
    /\ racers = <<>>
    /\ now = 0

NoZone == [Domain |-> <<>>, Serial |-> -1, Records |-> <<>>]

ZoneIdle ==
    /\ zoneIn = [domain |-> <<>>, ip |-> <<>>, serial |-> <<>>]
    /\ zoneOut = NoZone

NoSummary == <<"U+0000">>

HumanIdle ==
    /\ cronFields = <<>>
    /\ summary = NoSummary

\* The daemons are up and take a reload.
EnvIdle == daemonUp = TRUE

\* No client has listed the cron jobs or asked for a deletion.
NoJob == [ID |-> 0]

ClientIdle ==
    /\ listings = <<>>
    /\ meant = NoJob

\* No background task is pending.
TaskIdle == tasks = {}

\* No account but root's exists and no user request was made.
OsIdle ==
    /\ accounts = {}
    /\ errs = <<>>

\* No symbolic link exists.
LinkIdle == symlinks = <<>>

OutIdle ==
    /\ proc = NoProc
    /\ runOut = NoOutput

(***************************************************************************)
(* SpecPath: safePath applied to every bounded request path, by the file   *)
(* listing and by the FTP account creation.                                *)
(***************************************************************************)

MaxPathLen == 4

PathAlphabet == {"/", ".", "a"}

\* The paths requests name: every short string over the alphabet and the
\* examples of the specification.
PathInputs ==
    StringsUpTo(PathAlphabet, MaxPathLen)
        \cup {in_etc_passwd, in_a_up_up_b, in_slash_a_b, in_up_www2,
              in_home_etc, in_home_up, in_home_site, in_home_sibling}

PathInit ==
    /\ allowedCommands = AllowedCommandsInit
    /\ pathArg \in PathInputs
    /\ ApiIdle
    /\ GateIdle
    /\ SanIdle
    /\ RunIdle
    /\ LinkIdle
    /\ OsIdle
    /\ TaskIdle
    /\ ClientIdle
    /\ EnvIdle
    /\ HumanIdle
    /\ ZoneIdle
    /\ HistIdle
    /\ OutIdle

PathNext ==
    \/ /\ resp = NoRequest
       /\ ListFiles(pathArg)
       /\ UNCHANGED <<allowedCommands, pathArg, gateVars, sanVars, runVars, outVars, histVars, zoneVars, humanVars, envVars, clientVars, taskVars, osVars, linkVars>>
    \/ /\ resp = NoRequest
       /\ \E home \in {pathArg, ftpHomePrefix \o pathArg} :
            CreateFTPUser(in_bob, in_password, home)
       /\ UNCHANGED <<allowedCommands, pathArg, gateVars, sanVars, runVars, outVars, histVars, zoneVars, humanVars, envVars, clientVars, taskVars, osVars, linkVars>>

SpecPath == PathInit /\ [][PathNext]_vars

(***************************************************************************)
(* SpecFiles: the file manager's handlers on the tree below /var/www.      *)
(***************************************************************************)

\* The paths the requests that change the tree name.
FsInputs == {<<>>, <<"/">>, p_a, p_b, p_a_a, <<".", ".">>}

FilesInit ==
    /\ allowedCommands = AllowedCommandsInit
    /\ ApiIdle
    /\ GateIdle
    /\ SanIdle
    /\ PathIdle
    /\ RunIdle
    /\ LinkIdle
    /\ OsIdle
    /\ TaskIdle
    /\ ClientIdle
    /\ EnvIdle
    /\ HumanIdle
    /\ ZoneIdle
    /\ HistIdle
    /\ OutIdle

FilesNext ==
    \/ /\ \E reqPath \in FsInputs : ListFiles(reqPath)
       /\ UNCHANGED <<allowedCommands, pathArg, gateVars, sanVars, runVars, outVars, histVars, zoneVars, humanVars, envVars, clientVars, taskVars, osVars, linkVars>>
    \/ /\ \E path \in FsInputs : MakeDirectory(path)
       /\ UNCHANGED <<allowedCommands, pathArg, gateVars, sanVars, runVars, outVars, histVars, zoneVars, humanVars, envVars, clientVars, taskVars, osVars, linkVars>>
    \/ /\ \E reqPath \in FsInputs : DeleteFile(reqPath)
       /\ UNCHANGED <<allowedCommands, pathArg, gateVars, sanVars, runVars, outVars, histVars, zoneVars, humanVars, envVars, clientVars, taskVars, osVars, linkVars>>
    \/ /\ \E from \in FsInputs, to \in FsInputs : RenameFile(from, to)
       /\ UNCHANGED <<allowedCommands, pathArg, gateVars, sanVars, runVars, outVars, histVars, zoneVars, humanVars, envVars, clientVars, taskVars, osVars, linkVars>>

SpecFiles == FilesInit /\ [][FilesNext]_vars

(***************************************************************************)
(* Spec: the account, FTP, database and mail handlers, in any order.       *)
(***************************************************************************)

NameInputs == {a_root, in_bob, in_bang}

PasswordInputs == {<<>>, in_short, in_password}

ShellInputs == {<<>>, a_bin_bash, in_zsh}

MysqlEnvs ==
    {[user |-> <<>>, pass |-> <<>>], [user |-> in_panel, pass |-> in_password]}

DbListings == {<<>>, <<c_mysql, in_shop>>}

DbNameInputs == {in_shop, in_bang, c_mysql, db_information_schema}

EmailInputs == {in_email, in_email_bad, in_bob}

Init ==
    /\ allowedCommands = AllowedCommandsInit
    /\ ApiIdle
    /\ GateIdle
    /\ SanIdle
    /\ PathIdle
    /\ RunIdle
    /\ LinkIdle
    /\ OsIdle
    /\ TaskIdle
    /\ ClientIdle
    /\ EnvIdle
    /\ HumanIdle
    /\ ZoneIdle
    /\ HistIdle
    /\ OutIdle

Next ==
    \/ /\ \E u \in NameInputs : DeleteUser(u)
       /\ UNCHANGED <<allowedCommands, pathArg, gateVars, sanVars, runVars, outVars, histVars, zoneVars, humanVars, envVars, clientVars, taskVars, osVars, linkVars>>
    \/ /\ \E u \in NameInputs, pw \in PasswordInputs, sh \in ShellInputs :
            UpdateUser(u, pw, sh)
       /\ UNCHANGED <<allowedCommands, pathArg, gateVars, sanVars, runVars, outVars, histVars, zoneVars, humanVars, envVars, clientVars, taskVars, osVars, linkVars>>
    \/ /\ \E u \in NameInputs : SuspendUser(u)
       /\ UNCHANGED <<allowedCommands, pathArg, gateVars, sanVars, runVars, outVars, histVars, zoneVars, humanVars, envVars, clientVars, taskVars, osVars, linkVars>>
    \/ /\ \E u \in NameInputs : ActivateUser(u)
       /\ UNCHANGED <<allowedCommands, pathArg, gateVars, sanVars, runVars, outVars, histVars, zoneVars, humanVars, envVars, clientVars, taskVars, osVars, linkVars>>
    \/ /\ \E u \in NameInputs, pw \in {in_short, in_password},
             home \in {<<>>, in_home_up} :
            CreateFTPUser(u, pw, home)
       /\ UNCHANGED <<allowedCommands, pathArg, gateVars, sanVars, runVars, outVars, histVars, zoneVars, humanVars, envVars, clientVars, taskVars, osVars, linkVars>>
    \/ /\ \E u \in NameInputs : DeleteFTPUser(u)
       /\ UNCHANGED <<allowedCommands, pathArg, gateVars, sanVars, runVars, outVars, histVars, zoneVars, humanVars, envVars, clientVars, taskVars, osVars, linkVars>>
    \/ /\ \E env \in MysqlEnvs, listing \in DbListings : ListDatabases(env, listing)
       /\ UNCHANGED <<allowedCommands, pathArg, gateVars, sanVars, runVars, outVars, histVars, zoneVars, humanVars, envVars, clientVars, taskVars, osVars, linkVars>>
    \/ /\ \E env \in MysqlEnvs, name \in {in_shop, in_bang}, u \in {<<>>, in_bob},
             pw \in {<<>>, in_dollar_password} :
            CreateDatabase(env, name, u, pw, <<>>)
       /\ UNCHANGED <<allowedCommands, pathArg, gateVars, sanVars, runVars, outVars, histVars, zoneVars, humanVars, envVars, clientVars, taskVars, osVars, linkVars>>
    \/ /\ \E env \in MysqlEnvs, name \in DbNameInputs : DropDatabase(env, name)
       /\ UNCHANGED <<allowedCommands, pathArg, gateVars, sanVars, runVars, outVars, histVars, zoneVars, humanVars, envVars, clientVars, taskVars, osVars, linkVars>>
    \/ /\ \E email \in EmailInputs, pw \in {in_short, in_password},
             quota \in {<<>>, in_5G} :
            CreateMailbox(email, pw, quota)
       /\ UNCHANGED <<allowedCommands, pathArg, gateVars, sanVars, runVars, outVars, histVars, zoneVars, humanVars, envVars, clientVars, taskVars, osVars, linkVars>>
    \/ /\ GetMailQueue
       /\ UNCHANGED <<allowedCommands, pathArg, gateVars, sanVars, runVars, outVars, histVars, zoneVars, humanVars, envVars, clientVars, taskVars, osVars, linkVars>>
    \/ /\ FlushMailQueue
       /\ UNCHANGED <<allowedCommands, pathArg, gateVars, sanVars, runVars, outVars, histVars, zoneVars, humanVars, envVars, clientVars, taskVars, osVars, linkVars>>

Spec == Init /\ [][Next]_vars

(***************************************************************************)
(* SpecRun: two request workers, the clock and the programs RunCmd starts. *)
(***************************************************************************)

RunInit ==
    /\ allowedCommands = AllowedCommandsInit
    /\ ApiIdle
    /\ GateIdle
    /\ SanIdle
    /\ PathIdle
    /\ RunIdle
    /\ LinkIdle
    /\ OsIdle
    /\ TaskIdle
    /\ ClientIdle
    /\ EnvIdle
    /\ HumanIdle
    /\ ZoneIdle
    /\ HistIdle
    /\ OutIdle

RunNext ==
    \/ /\ \E w \in Workers : ServeHTTP(w)
       /\ UNCHANGED <<allowedCommands, pathArg, gateVars, sanVars, apiVars, outVars, histVars, zoneVars, humanVars, envVars, clientVars, taskVars, osVars, linkVars>>
    \/ /\ \E w \in Workers, name \in RunNames : CallRunCmd(w, name)
       /\ UNCHANGED <<allowedCommands, pathArg, gateVars, sanVars, apiVars, outVars, histVars, zoneVars, humanVars, envVars, clientVars, taskVars, osVars, linkVars>>
    \/ /\ \E w \in Workers : CmdExits(w)
       /\ UNCHANGED <<allowedCommands, pathArg, gateVars, sanVars, apiVars, outVars, histVars, zoneVars, humanVars, envVars, clientVars, taskVars, osVars, linkVars>>
    \/ /\ \E w \in Workers : DeadlineExpires(w)
       /\ UNCHANGED <<allowedCommands, pathArg, gateVars, sanVars, apiVars, outVars, histVars, zoneVars, humanVars, envVars, clientVars, taskVars, osVars, linkVars>>
    \/ /\ \E w \in Workers : WriteResponse(w)
       /\ UNCHANGED <<allowedCommands, pathArg, gateVars, sanVars, apiVars, outVars, histVars, zoneVars, humanVars, envVars, clientVars, taskVars, osVars, linkVars>>
    \/ /\ Tick
       /\ UNCHANGED <<allowedCommands, pathArg, gateVars, sanVars, apiVars, outVars, histVars, zoneVars, humanVars, envVars, clientVars, taskVars, osVars, linkVars>>

SpecRun == RunInit /\ [][RunNext]_vars

(***************************************************************************)
(* SpecSanitize: Sanitize applied once and twice to every bounded input.   *)
(***************************************************************************)

MaxSanLen == 3

SanAlphabet == {"a", "Z", "0", ".", "_", "-", ";", "|", "[", "U+00E9"}

SanExamples == {<<"a", ";", "b", "|", "c">>, <<"r", "o", "o", "t">>}

SanInputs == StringsUpTo(SanAlphabet, MaxSanLen) \cup SanExamples

SanInit ==
    /\ allowedCommands = AllowedCommandsInit
    /\ raw \in SanInputs
    /\ clean = <<>>
    /\ twice = <<>>
    /\ sanStage = "in"
    /\ ApiIdle
    /\ GateIdle
    /\ PathIdle
    /\ RunIdle
    /\ LinkIdle
    /\ OsIdle
    /\ TaskIdle
    /\ ClientIdle
    /\ EnvIdle
    /\ HumanIdle
    /\ ZoneIdle
    /\ HistIdle
    /\ OutIdle

SanitizeOnce ==
    /\ sanStage = "in"
    /\ clean' = Sanitize(raw)
    /\ sanStage' = "once"
    /\ UNCHANGED <<raw, twice, allowedCommands, pathArg, gateVars, apiVars, runVars, outVars, histVars, zoneVars, humanVars, envVars, clientVars, taskVars, osVars, linkVars>>

SanitizeTwice ==
    /\ sanStage = "once"
    /\ twice' = Sanitize(clean)
    /\ sanStage' = "twice"
    /\ UNCHANGED <<raw, clean, allowedCommands, pathArg, gateVars, apiVars, runVars, outVars, histVars, zoneVars, humanVars, envVars, clientVars, taskVars, osVars, linkVars>>

SanNext == SanitizeOnce \/ SanitizeTwice

SpecSanitize == SanInit /\ [][SanNext]_vars

(***************************************************************************)
(* SpecGate: RunCmd called with every bounded command name and argument    *)
(* list, by any caller.                                                    *)
(***************************************************************************)

MaxArgLen == 2

GateNames == AllowedCommandsInit \cup {c_curl, c_bash, c_postmap, c_postqueue, c_sudo}

GateChars == {";", "&", "|", "U+0060", "$", "(", ")", "<", ">", "\n", "\r",
              "a", "-", " ", "'"}

GateStrings == StringsUpTo(GateChars, MaxArgLen)

GateArgLists ==
    {<<>>, <<<<"-", "r", "f">>, <<"/">>>>}
        \cup {<<s>> : s \in GateStrings}
        \cup {<<a_r, s>> : s \in GateStrings}

GateInit ==
    /\ allowedCommands = AllowedCommandsInit
    /\ gateName \in GateNames
    /\ gateArgs \in GateArgLists
    /\ gateRet = NoCall
    /\ spawned = {}
    /\ ApiIdle
    /\ SanIdle
    /\ PathIdle
    /\ RunIdle
    /\ LinkIdle
    /\ OsIdle
    /\ TaskIdle
    /\ ClientIdle
    /\ EnvIdle
    /\ HumanIdle
    /\ ZoneIdle
    /\ HistIdle
    /\ OutIdle

\* The caller calls RunCmd(gateName, gateArgs...).
GateCall ==
    /\ gateRet = NoCall
    /\ \E exitOk \in BOOLEAN :
        LET ret == RunCmd(gateName, gateArgs, exitOk)
        IN /\ gateRet' = ret
           /\ spawned' = IF ret.argv # <<>> THEN {ret.argv} ELSE {}
    /\ UNCHANGED <<gateName, gateArgs, allowedCommands, pathArg, sanVars, apiVars, runVars, outVars, histVars, zoneVars, humanVars, envVars, clientVars, taskVars, osVars, linkVars>>

GateNext == GateCall

SpecGate == GateInit /\ [][GateNext]_vars

(***************************************************************************)
(* SpecOutput: RunCmd for every bounded end of the program it starts.      *)
(***************************************************************************)

MaxOutLen == 2

StdoutTexts == StringsUpTo({" ", "\n", "o"}, MaxOutLen) \cup {<<" ", "o", " ", "o", "\n">>}

StderrTexts == StringsUpTo({" ", "\t", "e"}, MaxOutLen) \cup {<<"\n", "e", " ", "e", " ">>}

\* The ends of a program: one that could not be started printed nothing.
ProcEnds ==
    {NoProc} \cup
    [started : {TRUE}, exit : {0, 1}, stdout : StdoutTexts, stderr : StderrTexts]

OutInit ==
    /\ allowedCommands = AllowedCommandsInit
    /\ gateName \in {c_uptime, c_curl}
    /\ gateArgs \in {<<>>, <<<<"$">>>>}
    /\ gateRet = NoCall
    /\ spawned = {}
    /\ proc \in ProcEnds
    /\ runOut = NoOutput
    /\ ApiIdle
    /\ SanIdle
    /\ PathIdle
    /\ RunIdle
    /\ LinkIdle
    /\ OsIdle
    /\ TaskIdle
    /\ ClientIdle
    /\ EnvIdle
    /\ HumanIdle
    /\ ZoneIdle
    /\ HistIdle

\* The caller calls RunCmd(gateName, gateArgs...) and the program ends as
\* proc says.
OutCall ==
    /\ runOut = NoOutput
    /\ runOut' = RunCmdOutput(gateName, gateArgs, proc)
    /\ UNCHANGED <<allowedCommands, pathArg, proc, gateVars, sanVars, apiVars, runVars, histVars, zoneVars, humanVars, envVars, clientVars, taskVars, osVars, linkVars>>

OutNext == OutCall

SpecOutput == OutInit /\ [][OutNext]_vars

(***************************************************************************)
(* SpecCronIndex: one request on a crontab that crontab(1) or an           *)
(* administrator wrote, with comments, directives and short lines.         *)
(***************************************************************************)

MaxCronLines == 2

CronLineKinds ==
    {<<>>, cr_hash_c, cr_shell, cr_mailto_line, cr_path_line, cr_short,
     cr_job_x, cr_job_y}

\* The crontab texts of at most n lines, each ended by a newline.
RECURSIVE CronContents(_)
CronContents(n) ==
    IF n = 0 THEN {<<>>}
    ELSE LET shorter == CronContents(n - 1)
         IN shorter \cup {l \o <<"\n">> \o c : l \in CronLineKinds, c \in shorter}

IdTexts == {<<"0">>, <<"1">>, <<"2">>, <<"3">>}

\* The body of a request: five schedule fields, a command and no user.
CronRequest(minute, command) ==
    [Minute |-> minute, Hour |-> in_star, Day |-> in_star, Month |-> in_star,
     Weekday |-> in_star, Command |-> command, User |-> <<>>]

IndexInit ==
    /\ allowedCommands = AllowedCommandsInit
    /\ fsPaths = {fileManagerRoot}
    /\ files \in {<<>>} \cup {crontabFile(a_root) :> c : c \in CronContents(MaxCronLines)}
    /\ resp = NoRequest
    /\ GateIdle
    /\ SanIdle
    /\ PathIdle
    /\ RunIdle
    /\ LinkIdle
    /\ OsIdle
    /\ TaskIdle
    /\ ClientIdle
    /\ EnvIdle
    /\ HumanIdle
    /\ ZoneIdle
    /\ HistIdle
    /\ OutIdle

IndexNext ==
    \/ /\ resp = NoRequest
       /\ ListCronJobs(a_root)
       /\ UNCHANGED <<allowedCommands, pathArg, racers, now, gateVars, sanVars, runVars, outVars, zoneVars, humanVars, envVars, clientVars, taskVars, osVars, linkVars>>
    \/ /\ resp = NoRequest
       /\ \E idStr \in IdTexts : DeleteCronJob(idStr, <<>>)
       /\ UNCHANGED <<allowedCommands, pathArg, racers, now, gateVars, sanVars, runVars, outVars, zoneVars, humanVars, envVars, clientVars, taskVars, osVars, linkVars>>
    \/ /\ resp = NoRequest
       /\ \E idStr \in IdTexts : UpdateCronJob(idStr, CronRequest(in_every5, in_cmd_y))
       /\ UNCHANGED <<allowedCommands, pathArg, racers, now, gateVars, sanVars, runVars, outVars, zoneVars, humanVars, envVars, clientVars, taskVars, osVars, linkVars>>

SpecCronIndex == IndexInit /\ [][IndexNext]_vars

(***************************************************************************)
(* SpecCron: requests on the crontab of root, which is empty at first.     *)
(***************************************************************************)

MaxCronRequests == 4

\* Bodies CreateCronJob accepts: two jobs and one whose command is a blank.
CronCreates ==
    {CronRequest(in_one, in_cmd_x), CronRequest(in_every5, in_cmd_y),
     CronRequest(in_star, <<" ">>)}

\* Bodies with a schedule field outside [0-9*/,-], an empty schedule field
\* and an empty command.
CronBadBodies ==
    {CronRequest(in_at, in_cmd_x), CronRequest(<<>>, in_cmd_x),
     CronRequest(in_star, <<>>)}

CronInit ==
    /\ allowedCommands = AllowedCommandsInit
    /\ fsPaths = {fileManagerRoot}
    /\ files \in {<<>>, crontabFile(a_root) :> <<>>}
    /\ resp = NoRequest
    /\ GateIdle
    /\ SanIdle
    /\ PathIdle
    /\ RunIdle
    /\ LinkIdle
    /\ OsIdle
    /\ TaskIdle
    /\ ClientIdle
    /\ EnvIdle
    /\ HumanIdle
    /\ ZoneIdle
    /\ HistIdle
    /\ OutIdle

CronNext ==
    \/ /\ ListCronJobs(a_root)
       /\ UNCHANGED <<allowedCommands, pathArg, racers, now, gateVars, sanVars, runVars, outVars, zoneVars, humanVars, envVars, clientVars, taskVars, osVars, linkVars>>
    \/ /\ Len(cronLog) < MaxCronRequests
       /\ \E req \in CronCreates \cup CronBadBodies : CreateCronJob(req)
       /\ UNCHANGED <<allowedCommands, pathArg, racers, now, gateVars, sanVars, runVars, outVars, zoneVars, humanVars, envVars, clientVars, taskVars, osVars, linkVars>>
    \/ /\ Len(cronLog) < MaxCronRequests
       /\ \E idStr \in {<<"1">>, <<"2">>} : DeleteCronJob(idStr, <<>>)
       /\ UNCHANGED <<allowedCommands, pathArg, racers, now, gateVars, sanVars, runVars, outVars, zoneVars, humanVars, envVars, clientVars, taskVars, osVars, linkVars>>
    \/ /\ Len(cronLog) < MaxCronRequests
       /\ \E req \in {CronRequest(in_every5, in_cmd_y), CronRequest(in_at, in_cmd_x)} :
              UpdateCronJob(<<"1">>, req)
       /\ UNCHANGED <<allowedCommands, pathArg, racers, now, gateVars, sanVars, runVars, outVars, zoneVars, humanVars, envVars, clientVars, taskVars, osVars, linkVars>>

SpecCron == CronInit /\ [][CronNext]_vars

(***************************************************************************)
(* SpecRace: two requests in flight on the crontab of root.  A request is  *)
(* served by its own goroutine; removeCronLine and updateCronLine read the *)
(* file with os.ReadFile and write it back with os.WriteFile, and nothing  *)
(* in the program orders the steps of one request against another's.       *)
(***************************************************************************)

Racers == {1, 2}

IdleRacer ==
    [pc |-> "idle", op |-> "none", id |-> 0, line |-> <<>>, data |-> <<>>,
     status |-> 0]

\* filesBefore keeps the files as they were when the first request began.
RaceBefore == IF \A w \in Racers : racers[w].pc = "idle" THEN files ELSE filesBefore

\* CreateCronJob in worker w; appendCrontab is one write on a file opened
\* with O_APPEND.
RaceCreate(w, req) ==
    LET line == cronLine(req)
        bad == \/ req.Command = <<>>
               \/ \E field \in {req.Minute, req.Hour, req.Day, req.Month, req.Weekday} :
                      ~isValidCronField(field)
    IN /\ racers[w].pc = "idle"
       /\ filesBefore' = RaceBefore
       /\ files' = IF bad THEN files
                   ELSE appendCrontab(files, bodyCronUser(req.User), line)
       /\ racers' = [racers EXCEPT ![w] =
                        [pc |-> "done", op |-> "CreateCronJob", id |-> 0,
                         line |-> line, data |-> <<>>,
                         status |-> IF bad THEN 400 ELSE 201]]

\* The os.ReadFile step of removeCronLine (op = "DeleteCronJob") or
\* updateCronLine (op = "UpdateCronJob") in worker w.
RaceRead(w, op, idStr, line) ==
    LET file == crontabFile(a_root)
    IN /\ racers[w].pc = "idle"
       /\ filesBefore' = RaceBefore
       /\ UNCHANGED files
       /\ racers' = [racers EXCEPT ![w] =
                        IF file \notin DOMAIN files
                        THEN [pc |-> "done", op |-> op, id |-> parseId(idStr),
                              line |-> line, data |-> <<>>, status |-> 500]
                        ELSE [pc |-> "read", op |-> op, id |-> parseId(idStr),
                              line |-> line, data |-> files[file], status |-> 0]]

\* The os.WriteFile step of removeCronLine or updateCronLine in worker w,
\* and the response of the handler.
RaceWrite(w) ==
    LET r == racers[w]
        file == crontabFile(a_root)
    IN /\ r.pc = "read"
       /\ UNCHANGED filesBefore
       /\ \E writeOk \in BOOLEAN :
            /\ files' = IF ~writeOk THEN files
                        ELSE (file :> (IF r.op = "DeleteCronJob"
                                       THEN removeCronLine(r.data, r.id)
                                       ELSE updateCronLine(r.data, r.id, r.line)))
                             @@ files
            /\ racers' = [racers EXCEPT ![w] =
                            [r EXCEPT !.pc = "done",
                                      !.status = IF writeOk THEN 200 ELSE 500]]

\* Crontabs that CreateCronJob wrote.
RaceContents ==
    LET lx == cronLine(CronRequest(in_one, in_cmd_x)) \o <<"\n">>
        ly == cronLine(CronRequest(in_every5, in_cmd_y)) \o <<"\n">>
    IN {lx, lx \o ly, lx \o ly \o lx}

RaceInit ==
    /\ allowedCommands = AllowedCommandsInit
    /\ fsPaths = {fileManagerRoot}
    /\ files \in {crontabFile(a_root) :> c : c \in RaceContents}
    /\ resp = NoRequest
    /\ filesBefore = <<>>
    /\ cronLog = <<>>
    /\ racers = [w \in Racers |-> IdleRacer]
    /\ now = 0
    /\ GateIdle
    /\ SanIdle
    /\ PathIdle
    /\ RunIdle
    /\ LinkIdle
    /\ OsIdle
    /\ TaskIdle
    /\ ClientIdle
    /\ EnvIdle
    /\ HumanIdle
    /\ ZoneIdle
    /\ OutIdle

RaceNext ==
    \/ /\ \E w \in Racers : RaceCreate(w, CronRequest(in_star, in_cmd_x))
       /\ UNCHANGED <<allowedCommands, pathArg, fsPaths, resp, cronLog, now, gateVars, sanVars, runVars, outVars, zoneVars, humanVars, envVars, clientVars, taskVars, osVars, linkVars>>
    \/ /\ \E w \in Racers, idStr \in {<<"1">>, <<"2">>} :
              RaceRead(w, "DeleteCronJob", idStr, <<>>)
       /\ UNCHANGED <<allowedCommands, pathArg, fsPaths, resp, cronLog, now, gateVars, sanVars, runVars, outVars, zoneVars, humanVars, envVars, clientVars, taskVars, osVars, linkVars>>
    \/ /\ \E w \in Racers, idStr \in {<<"1">>, <<"2">>} :
              RaceRead(w, "UpdateCronJob", idStr, cronLine(CronRequest(in_star, in_cmd_y)))
       /\ UNCHANGED <<allowedCommands, pathArg, fsPaths, resp, cronLog, now, gateVars, sanVars, runVars, outVars, zoneVars, humanVars, envVars, clientVars, taskVars, osVars, linkVars>>
    \/ /\ \E w \in Racers : RaceWrite(w)
       /\ UNCHANGED <<allowedCommands, pathArg, fsPaths, resp, cronLog, now, gateVars, sanVars, runVars, outVars, zoneVars, humanVars, envVars, clientVars, taskVars, osVars, linkVars>>

SpecRace == RaceInit /\ [][RaceNext]_vars

(***************************************************************************)
(* SpecMail: the mail domains and mailboxes.                               *)
(***************************************************************************)

MailDomainInputs == {in_a_com, in_a_com_au, in_bang}

MailboxInputs == {in_email, in_bob}

MailInit ==
    /\ allowedCommands = AllowedCommandsInit
    /\ ApiIdle
    /\ GateIdle
    /\ SanIdle
    /\ PathIdle
    /\ RunIdle
    /\ LinkIdle
    /\ OsIdle
    /\ TaskIdle
    /\ ClientIdle
    /\ EnvIdle
    /\ HumanIdle
    /\ ZoneIdle
    /\ HistIdle
    /\ OutIdle

MailNext ==
    \/ /\ \E bodyDomain \in MailDomainInputs : AddMailDomain(bodyDomain)
       /\ filesBefore' = files
       /\ UNCHANGED <<allowedCommands, pathArg, cronLog, racers, now, gateVars, sanVars, runVars, outVars, zoneVars, humanVars, envVars, clientVars, taskVars, osVars, linkVars>>
    \/ /\ \E paramDomain \in MailDomainInputs : DeleteMailDomain(paramDomain)
       /\ filesBefore' = files
       /\ UNCHANGED <<allowedCommands, pathArg, cronLog, racers, now, gateVars, sanVars, runVars, outVars, zoneVars, humanVars, envVars, clientVars, taskVars, osVars, linkVars>>
    \/ /\ LineCount(Content(files, dovecotPasswdFile)) < MaxFileLines
       /\ \E bodyEmail \in MailboxInputs : CreateMailbox(bodyEmail, in_password, <<>>)
       /\ filesBefore' = files
       /\ UNCHANGED <<allowedCommands, pathArg, cronLog, racers, now, gateVars, sanVars, runVars, outVars, zoneVars, humanVars, envVars, clientVars, taskVars, osVars, linkVars>>
    \/ /\ \E paramEmail \in MailboxInputs : DeleteMailbox(paramEmail)
       /\ filesBefore' = files
       /\ UNCHANGED <<allowedCommands, pathArg, cronLog, racers, now, gateVars, sanVars, runVars, outVars, zoneVars, humanVars, envVars, clientVars, taskVars, osVars, linkVars>>

SpecMail == MailInit /\ [][MailNext]_vars

(***************************************************************************)
(* SpecZone: a zone file is built and parsed back.                         *)
(***************************************************************************)

ZoneDomains == {in_a_com, in_a_com_au, in_b_org, in_shop, in_serial_io}

ZoneAddresses == {in_ip, in_ip6, in_one, in_a_com}

ZoneSerials == {in_serial, in_serial_low, in_one, timeFormat(0), timeFormat(25)}

ZoneInit ==
    /\ allowedCommands = AllowedCommandsInit
    /\ zoneIn \in [domain : ZoneDomains, ip : ZoneAddresses, serial : ZoneSerials]
    /\ zoneOut = NoZone
    /\ ApiIdle
    /\ GateIdle
    /\ SanIdle
    /\ PathIdle
    /\ RunIdle
    /\ LinkIdle
    /\ OsIdle
    /\ TaskIdle
    /\ ClientIdle
    /\ EnvIdle
    /\ HumanIdle
    /\ HistIdle
    /\ OutIdle

\* buildZoneFile, then parseZoneFile on what it returned.
ZoneRoundTrip ==
    /\ zoneOut = NoZone
    /\ zoneOut' = parseZoneFile(buildZoneFile(zoneIn.domain, zoneIn.ip, zoneIn.serial),
                                zoneIn.domain)
    /\ UNCHANGED <<allowedCommands, pathArg, zoneIn, gateVars, sanVars, apiVars, runVars, outVars, histVars, humanVars, envVars, clientVars, taskVars, osVars, linkVars>>

\* bumpSerial on the file buildZoneFile returned, as the first record
\* change on a newly created zone does; the file is written back.
ZoneBump ==
    /\ files = <<>>
    /\ files' = zoneFileOf(zoneIn.domain) :>
                    bumpSerial(buildZoneFile(zoneIn.domain, zoneIn.ip, zoneIn.serial),
                               timeFormat(now))
    /\ UNCHANGED <<allowedCommands, pathArg, fsPaths, resp, gateVars, sanVars, runVars, outVars, histVars, zoneVars, humanVars, envVars, clientVars, taskVars, osVars, linkVars>>

ZoneNext == ZoneRoundTrip \/ ZoneBump

SpecZone == ZoneInit /\ [][ZoneNext]_vars

(***************************************************************************)
(* SpecSerial: the records of one zone are edited while the hours pass.    *)
(***************************************************************************)

MaxHours == 2

MaxZoneRecords == 1

\* AddDNSRecord adds two lines to the file, a blank one and the record: the
\* lines a zone file may hold beyond those of a newly built one.
RoomInZone(content) ==
    LineCount(content) < LineCount(buildZoneFile(<<>>, <<>>, <<>>)) + 2 * MaxZoneRecords

DnsRecordInputs ==
    {[Name |-> in_www, TTL |-> <<>>, Type |-> <<"a">>, Value |-> in_ip],
     [Name |-> in_shop, TTL |-> <<"6", "0">>, Type |-> <<"M", "X">>, Value |-> in_a_com],
     [Name |-> in_www, TTL |-> <<>>, Type |-> <<"S", "O", "A">>, Value |-> in_ip]}

SerialInit ==
    /\ allowedCommands = AllowedCommandsInit
    /\ ApiIdle
    /\ GateIdle
    /\ SanIdle
    /\ PathIdle
    /\ RunIdle
    /\ LinkIdle
    /\ OsIdle
    /\ TaskIdle
    /\ ClientIdle
    /\ EnvIdle
    /\ HumanIdle
    /\ HistIdle
    /\ ZoneIdle
    /\ OutIdle

SerialNext ==
    \/ /\ zoneFileOf(in_a_com) \notin DOMAIN files
       /\ \E bodyIP \in {in_ip, <<>>} : CreateDNSZone(in_a_com, bodyIP, <<>>)
       /\ filesBefore' = files
       /\ UNCHANGED <<allowedCommands, pathArg, cronLog, racers, now, gateVars, sanVars, runVars, outVars, zoneVars, humanVars, envVars, clientVars, taskVars, osVars, linkVars>>
    \/ /\ RoomInZone(Content(files, zoneFileOf(in_a_com)))
       /\ \E rec \in DnsRecordInputs : AddDNSRecord(in_a_com, rec, <<>>)
       /\ filesBefore' = files
       /\ UNCHANGED <<allowedCommands, pathArg, cronLog, racers, now, gateVars, sanVars, runVars, outVars, zoneVars, humanVars, envVars, clientVars, taskVars, osVars, linkVars>>
    \/ /\ \E bodyName \in {in_www, in_shop} : DeleteDNSRecord(in_a_com, bodyName, <<"A">>, <<>>)
       /\ filesBefore' = files
       /\ UNCHANGED <<allowedCommands, pathArg, cronLog, racers, now, gateVars, sanVars, runVars, outVars, zoneVars, humanVars, envVars, clientVars, taskVars, osVars, linkVars>>
    \/ /\ now < MaxHours
       /\ now' = now + 1
       /\ UNCHANGED <<allowedCommands, pathArg, filesBefore, cronLog, racers, gateVars, sanVars, apiVars, runVars, outVars, zoneVars, humanVars, envVars, clientVars, taskVars, osVars, linkVars>>

SpecSerial == SerialInit /\ [][SerialNext]_vars

(***************************************************************************)
(* SpecUsers: accounts are created and deleted through the user API.       *)
(* useradd exits with an error for a name that exists, userdel for one     *)
(* that does not; either can fail for other reasons.                       *)
(***************************************************************************)

\* CreateUser without the clean-up after a failed chpasswd.
CreateUserNoCleanup(reqUsername, reqPassword, reqShell, reqGroups) ==
    LET username == Sanitize(reqUsername)
        shell == IF reqShell = <<>> THEN a_bin_bash ELSE reqShell
        args == (IF reqGroups # <<>> THEN <<a_G, Sanitize(reqGroups)>> ELSE <<>>)
                \o <<a_m, a_s, shell, username>>
        Reply(status, calls) ==
            Response("CreateUser", status, calls, {}, <<username>>, <<>>, FALSE)
    IN /\ UNCHANGED <<fsPaths, files>>
       /\ IF username = <<>> \/ Len(username) > 32 \/ Len(reqPassword) < 8
             \/ shell \notin allowedShells
          THEN /\ resp' = Reply(400, <<>>)
               /\ errs' = <<>>
               /\ UNCHANGED accounts
          ELSE \E addOk \in BOOLEAN, pwOk \in BOOLEAN :
                LET add == RunCmd(c_useradd, args, addOk /\ username \notin accounts)
                    pw == RunCmd(c_chpasswd, <<username \o a_colon \o reqPassword>>, pwOk)
                IN IF add.err # "nil"
                   THEN /\ resp' = Reply(500, <<CallLog(add)>>)
                        /\ errs' = <<add.err>>
                        /\ UNCHANGED accounts
                   ELSE /\ resp' = Reply(IF pw.err # "nil" THEN 500 ELSE 201,
                                        <<CallLog(add), CallLog(pw)>>)
                        /\ errs' = <<add.err, pw.err>>
                        /\ accounts' = accounts \cup {username}

\* POST /api/users
CreateUser(reqUsername, reqPassword, reqShell, reqGroups) ==
    LET username == Sanitize(reqUsername)
        shell == IF reqShell = <<>> THEN a_bin_bash ELSE reqShell
        args == (IF reqGroups # <<>> THEN <<a_G, Sanitize(reqGroups)>> ELSE <<>>)
                \o <<a_m, a_s, shell, username>>
        Reply(status, calls) ==
            Response("CreateUser", status, calls, {}, <<username>>, <<>>, FALSE)
    IN /\ UNCHANGED <<fsPaths, files>>
       /\ IF username = <<>> \/ Len(username) > 32 \/ Len(reqPassword) < 8
             \/ shell \notin allowedShells
          THEN /\ resp' = Reply(400, <<>>)
               /\ errs' = <<>>
               /\ UNCHANGED accounts
          ELSE \E addOk \in BOOLEAN, pwOk \in BOOLEAN, delOk \in BOOLEAN :
                LET add == RunCmd(c_useradd, args, addOk /\ username \notin accounts)
                    pw == RunCmd(c_chpasswd, <<username \o a_colon \o reqPassword>>, pwOk)
                    del == RunCmd(c_userdel, <<a_r, username>>, delOk)
                IN IF add.err # "nil"
                   THEN /\ resp' = Reply(500, <<CallLog(add)>>)
                        /\ errs' = <<add.err>>
                        /\ UNCHANGED accounts
                   ELSE IF pw.err # "nil"
                   THEN /\ resp' = Reply(500, <<CallLog(add), CallLog(pw), CallLog(del)>>)
                        /\ errs' = <<add.err, pw.err, del.err>>
                        /\ accounts' = IF del.err = "nil"
                                        THEN accounts \ {username}
                                        ELSE accounts \cup {username}
                   ELSE /\ resp' = Reply(201, <<CallLog(add), CallLog(pw)>>)
                        /\ errs' = <<add.err, pw.err>>
                        /\ accounts' = accounts \cup {username}

UserNames == {in_bob, in_shop, in_bang}

UsersInit ==
    /\ allowedCommands = AllowedCommandsInit
    /\ ApiIdle
    /\ GateIdle
    /\ SanIdle
    /\ PathIdle
    /\ RunIdle
    /\ LinkIdle
    /\ EnvIdle
    /\ ClientIdle
    /\ TaskIdle
    /\ OsIdle
    /\ HumanIdle
    /\ ZoneIdle
    /\ HistIdle
    /\ OutIdle

UsersNext ==
    \/ /\ \E reqUsername \in UserNames,
              reqPassword \in {in_password, in_dollar_password, in_short},
              reqShell \in {<<>>, a_bin_sh, in_zsh},
              reqGroups \in {<<>>, a_vsftpd} :
                CreateUser(reqUsername, reqPassword, reqShell, reqGroups)
       /\ filesBefore' = files
       /\ UNCHANGED <<allowedCommands, pathArg, cronLog, racers, now, gateVars, sanVars, runVars, outVars, zoneVars, humanVars, envVars, clientVars, taskVars, linkVars>>
    \/ /\ \E paramUsername \in UserNames : DeleteUser(paramUsername)
       /\ accounts' = IF resp'.status = 200 THEN accounts \ {resp'.idents[1]} ELSE accounts
       /\ errs' = <<>>
       /\ filesBefore' = files
       /\ UNCHANGED <<allowedCommands, pathArg, cronLog, racers, now, gateVars, sanVars, runVars, outVars, zoneVars, humanVars, envVars, clientVars, taskVars, linkVars>>

SpecUsers == UsersInit /\ [][UsersNext]_vars

(***************************************************************************)
(* SpecVhosts: virtual hosts are created, enabled, disabled and deleted.   *)
(* A configuration is a file of sites-available; a vhost is enabled when   *)
(* sites-enabled holds a link of its name.  nginx -t tests the whole       *)
(* configuration of the server; its result is the environment's choice.    *)
(***************************************************************************)

buildNginxConfig(domain, docroot, phpVersion, ssl) ==
    LET phpSocket == php_socket_prefix \o phpVersion \o php_socket_suffix
    IN <<"s", "e", "r", "v", "e", "r", " ", "{", "\n", " ", " ", " ", " ",
         "l", "i", "s", "t", "e", "n", " ", "8", "0", ";", "\n", " ", " ",
         " ", " ", "l", "i", "s", "t", "e", "n", " ", "[", ":", ":", "]", ":",
         "8", "0", ";", "\n", "\n", " ", " ", " ", " ", "s", "e", "r", "v",
         "e", "r", "_", "n", "a", "m", "e", " ">>
       \o domain
       \o <<" ", "w", "w", "w", ".">>
       \o domain
       \o <<";", "\n", " ", " ", " ", " ", "r", "o", "o", "t", " ">>
       \o docroot
       \o <<";", "\n", " ", " ", " ", " ", "i", "n", "d", "e", "x", " ", "i",
         "n", "d", "e", "x", ".", "p", "h", "p", " ", "i", "n", "d", "e", "x",
         ".", "h", "t", "m", "l", " ", "i", "n", "d", "e", "x", ".", "h", "t",
         "m", ";", "\n", "\n", " ", " ", " ", " ", "a", "c", "c", "e", "s",
         "s", "_", "l", "o", "g", " ", "/", "v", "a", "r", "/", "l", "o", "g",
         "/", "n", "g", "i", "n", "x", "/">>
       \o domain
       \o <<".", "a", "c", "c", "e", "s", "s", ".", "l", "o", "g", ";", "\n",
         " ", " ", " ", " ", "e", "r", "r", "o", "r", "_", "l", "o", "g", " ",
         " ", "/", "v", "a", "r", "/", "l", "o", "g", "/", "n", "g", "i", "n",
         "x", "/">>
       \o domain
       \o <<".", "e", "r", "r", "o", "r", ".", "l", "o", "g", ";", "\n", "\n",
         " ", " ", " ", " ", "l", "o", "c", "a", "t", "i", "o", "n", " ", "/",
         " ", "{", "\n", " ", " ", " ", " ", " ", " ", " ", " ", "t", "r",
         "y", "_", "f", "i", "l", "e", "s", " ", "$", "u", "r", "i", " ", "$",
         "u", "r", "i", "/", " ", "/", "i", "n", "d", "e", "x", ".", "p", "h",
         "p", "?", "$", "q", "u", "e", "r", "y", "_", "s", "t", "r", "i", "n",
         "g", ";", "\n", " ", " ", " ", " ", "}", "\n", "\n", " ", " ", " ",
         " ", "l", "o", "c", "a", "t", "i", "o", "n", " ", "~", " ", "\\",
         ".", "p", "h", "p", "$", " ", "{", "\n", " ", " ", " ", " ", " ",
         " ", " ", " ", "i", "n", "c", "l", "u", "d", "e", " ", "s", "n", "i",
         "p", "p", "e", "t", "s", "/", "f", "a", "s", "t", "c", "g", "i", "-",
         "p", "h", "p", ".", "c", "o", "n", "f", ";", "\n", " ", " ", " ",
         " ", " ", " ", " ", " ", "f", "a", "s", "t", "c", "g", "i", "_", "p",
         "a", "s", "s", " ", "u", "n", "i", "x", ":">>
       \o phpSocket
       \o <<";", "\n", " ", " ", " ", " ", "}", "\n", "\n", " ", " ", " ", " ",
         "l", "o", "c", "a", "t", "i", "o", "n", " ", "~", " ", "/", "\\",
         ".", "h", "t", " ", "{", "\n", " ", " ", " ", " ", " ", " ", " ",
         " ", "d", "e", "n", "y", " ", "a", "l", "l", ";", "\n", " ", " ",
         " ", " ", "}", "\n", "\n", " ", " ", " ", " ", "#", " ", "S", "e",
         "c", "u", "r", "i", "t", "y", " ", "h", "e", "a", "d", "e", "r", "s",
         "\n", " ", " ", " ", " ", "a", "d", "d", "_", "h", "e", "a", "d",
         "e", "r", " ", "X", "-", "F", "r", "a", "m", "e", "-", "O", "p", "t",
         "i", "o", "n", "s", " ", "\"", "S", "A", "M", "E", "O", "R", "I",
         "G", "I", "N", "\"", " ", "a", "l", "w", "a", "y", "s", ";", "\n",
         " ", " ", " ", " ", "a", "d", "d", "_", "h", "e", "a", "d", "e", "r",
         " ", "X", "-", "C", "o", "n", "t", "e", "n", "t", "-", "T", "y", "p",
         "e", "-", "O", "p", "t", "i", "o", "n", "s", " ", "\"", "n", "o",
         "s", "n", "i", "f", "f", "\"", " ", "a", "l", "w", "a", "y", "s",
         ";", "\n", " ", " ", " ", " ", "a", "d", "d", "_", "h", "e", "a",
         "d", "e", "r", " ", "R", "e", "f", "e", "r", "r", "e", "r", "-", "P",
         "o", "l", "i", "c", "y", " ", "\"", "n", "o", "-", "r", "e", "f",
         "e", "r", "r", "e", "r", "-", "w", "h", "e", "n", "-", "d", "o", "w",
         "n", "g", "r", "a", "d", "e", "\"", " ", "a", "l", "w", "a", "y",
         "s", ";", "\n", "}", "\n">>

confPathOf(domain) == FilepathJoin(<<nginxSitesAvailable, domain \o sfx_conf>>)

symlinkOf(domain) == FilepathJoin(<<nginxSitesEnabled, domain \o sfx_conf>>)

\* fs without the entry of path (os.Remove; a missing path is an ignored
\* error).
osRemove(fs, path) == [f \in DOMAIN fs \ {path} |-> fs[f]]

\* os.Symlink: fails, and is ignored, when the link path exists.
osSymlink(links, target, link) ==
    IF link \in DOMAIN links THEN links ELSE (link :> target) @@ links

\* POST /api/vhosts
CreateVhost(reqDomain, reqDocRoot, reqPHP, reqSSL) ==
    LET domain == Sanitize(reqDomain)
        phpVersion == IF reqPHP = <<>> THEN php_default ELSE reqPHP
        docroot == IF reqDocRoot = <<>>
                   THEN webRoot \o <<"/">> \o domain \o sub_public_html
                   ELSE reqDocRoot
        confPath == confPathOf(domain)
        conf == buildNginxConfig(domain, docroot, phpVersion, reqSSL)
        symlink == symlinkOf(domain)
        written == (confPath :> conf) @@ files
        linked == osSymlink(symlinks, confPath, symlink)
        dirCalls == << Discarded(c_mkdir, <<a_p, docroot>>),
                       Discarded(c_chown, <<a_www_data, docroot>>) >>
    IN /\ UNCHANGED fsPaths
       /\ IF domain = <<>>
          THEN /\ resp' = Response("CreateVhost", 400, <<>>, {}, <<domain>>, <<>>, FALSE)
               /\ UNCHANGED <<files, symlinks>>
          ELSE \E writeOk \in BOOLEAN, testOk \in BOOLEAN :
                LET test == RunCmd(c_nginx, <<a_t>>, testOk)
                IN IF ~writeOk
                   THEN /\ resp' = Response("CreateVhost", 500, <<>>, {}, <<domain>>, <<>>, FALSE)
                        /\ UNCHANGED <<files, symlinks>>
                   ELSE IF test.err # "nil"
                   THEN /\ files' = osRemove(written, confPath)
                        /\ symlinks' = osRemove(linked, symlink)
                        /\ resp' = Response("CreateVhost", 500,
                                       dirCalls \o <<CallLog(test)>>, {confPath},
                                       <<domain>>, <<>>, FALSE)
                   ELSE /\ files' = written
                        /\ symlinks' = linked
                        /\ resp' = Response("CreateVhost", 201,
                                       dirCalls \o <<CallLog(test),
                                           Discarded(c_systemctl, <<a_reload, a_nginx>>)>>,
                                       {confPath}, <<domain>>, <<>>, FALSE)

\* DELETE /api/vhosts/{domain}
DeleteVhost(paramDomain) ==
    LET domain == Sanitize(paramDomain)
    IN /\ UNCHANGED fsPaths
       /\ IF domain = <<>>
          THEN /\ resp' = Response("DeleteVhost", 400, <<>>, {}, <<domain>>, <<>>, FALSE)
               /\ UNCHANGED <<files, symlinks>>
          ELSE /\ symlinks' = osRemove(symlinks, symlinkOf(domain))
               /\ files' = osRemove(files, confPathOf(domain))
               /\ resp' = Response("DeleteVhost", 200,
                              <<Discarded(c_systemctl, <<a_reload, a_nginx>>)>>,
                              {confPathOf(domain)} \cap DOMAIN files,
                              <<domain>>, <<>>, FALSE)

\* POST /api/vhosts/{domain}/enable
EnableVhost(paramDomain) ==
    LET domain == Sanitize(paramDomain)
    IN /\ UNCHANGED <<fsPaths, files>>
       /\ IF confPathOf(domain) \notin DOMAIN files
          THEN /\ resp' = Response("EnableVhost", 404, <<>>, {}, <<domain>>, <<>>, FALSE)
               /\ UNCHANGED symlinks
          ELSE /\ symlinks' = osSymlink(symlinks, confPathOf(domain), symlinkOf(domain))
               /\ resp' = Response("EnableVhost", 200,
                              <<Discarded(c_systemctl, <<a_reload, a_nginx>>)>>,
                              {}, <<domain>>, <<>>, FALSE)

\* POST /api/vhosts/{domain}/disable
DisableVhost(paramDomain) ==
    LET domain == Sanitize(paramDomain)
    IN /\ UNCHANGED <<fsPaths, files>>
       /\ symlinks' = osRemove(symlinks, symlinkOf(domain))
       /\ resp' = Response("DisableVhost", 200,
                      <<Discarded(c_systemctl, <<a_reload, a_nginx>>)>>,
                      {}, <<domain>>, <<>>, FALSE)

VhostDomains == {in_a_com, in_b_org, in_bang}

VhostsInit ==
    /\ allowedCommands = AllowedCommandsInit
    /\ ApiIdle
    /\ GateIdle
    /\ SanIdle
    /\ PathIdle
    /\ RunIdle
    /\ EnvIdle
    /\ ClientIdle
    /\ TaskIdle
    /\ OsIdle
    /\ LinkIdle
    /\ HumanIdle
    /\ ZoneIdle
    /\ HistIdle
    /\ OutIdle

VhostsNext ==
    \/ /\ \E reqDomain \in VhostDomains, reqDocRoot \in {<<>>, in_docroot},
              reqPHP \in {<<>>, in_php81} :
                CreateVhost(reqDomain, reqDocRoot, reqPHP, FALSE)
       /\ filesBefore' = files
       /\ UNCHANGED <<allowedCommands, pathArg, cronLog, racers, now, gateVars, sanVars, runVars, outVars, zoneVars, humanVars, envVars, clientVars, taskVars, osVars>>
    \/ /\ \E paramDomain \in VhostDomains : DeleteVhost(paramDomain)
       /\ filesBefore' = files
       /\ UNCHANGED <<allowedCommands, pathArg, cronLog, racers, now, gateVars, sanVars, runVars, outVars, zoneVars, humanVars, envVars, clientVars, taskVars, osVars>>
    \/ /\ \E paramDomain \in VhostDomains : EnableVhost(paramDomain)
       /\ filesBefore' = files
       /\ UNCHANGED <<allowedCommands, pathArg, cronLog, racers, now, gateVars, sanVars, runVars, outVars, zoneVars, humanVars, envVars, clientVars, taskVars, osVars>>
    \/ /\ \E paramDomain \in VhostDomains : DisableVhost(paramDomain)
       /\ filesBefore' = files
       /\ UNCHANGED <<allowedCommands, pathArg, cronLog, racers, now, gateVars, sanVars, runVars, outVars, zoneVars, humanVars, envVars, clientVars, taskVars, osVars>>

SpecVhosts == VhostsInit /\ [][VhostsNext]_vars

(***************************************************************************)
(* SpecClients: two clients of the cron API.  Each lists root's jobs and   *)
(* later deletes a job by the id its own listing showed; jobs are created  *)
(* in between.                                                             *)
(***************************************************************************)
\* The job lines of a crontab: the lines that are not blank, not a comment
\* and not a MAILTO, PATH or SHELL directive.
JobLineCount(content) ==
    Len(SelectSeq(Split(content, "\n"), LAMBDA l : ~parseSkips(TrimSpace(l))))

(***************************************************************************)
(* SpecRunNow: jobs are created in root's crontab and triggered through    *)
(* POST /api/cron/{id}/run; the background tasks the handler launches run  *)
(* later.  SpecRunNowFair adds that a launched task does run.              *)
(***************************************************************************)

\* POST /api/cron/{id}/run: the handler launches the goroutine and answers;
\* it does not wait for the command.  Two pending tasks with the same
\* command are one element of tasks.
RunCronNow(idStr, queryUser) ==
    LET user == queryCronUser(queryUser)
        id == parseId(idStr)
        jobs == readCrontab(files, user)
        hits == {k \in DOMAIN jobs : jobs[k].ID = id}
    IN /\ filesBefore' = files
       /\ UNCHANGED <<fsPaths, files, cronLog>>
       /\ IF hits # {}
          THEN LET job == jobs[CHOOSE k \in hits : \A h \in hits : k <= h]
               IN /\ tasks' = tasks \cup {job.Command}
                  /\ resp' = CronResponse("RunCronNow", 200, {}, user, id, <<>>, <<job>>)
          ELSE /\ UNCHANGED tasks
               /\ resp' = CronResponse("RunCronNow", 404, {}, user, id, <<>>, <<>>)

\* The goroutine of RunCronNow: util.RunCmd("bash", "-c", cmd), both return
\* values dropped.
GoRunCmd(cmd) ==
    /\ cmd \in tasks
    /\ \E exitOk \in BOOLEAN :
          LET ret == RunCmd(c_bash, <<a_dash_c, cmd>>, exitOk)
          IN spawned' = spawned \cup (IF ret.argv # <<>> THEN {ret.argv} ELSE {})
    /\ tasks' = tasks \ {cmd}

RunNowCommands == {in_cmd_x, in_cmd_y}

RunNowInit ==
    /\ allowedCommands = AllowedCommandsInit
    /\ ApiIdle
    /\ GateIdle
    /\ SanIdle
    /\ PathIdle
    /\ RunIdle
    /\ LinkIdle
    /\ OsIdle
    /\ EnvIdle
    /\ ClientIdle
    /\ TaskIdle
    /\ HumanIdle
    /\ ZoneIdle
    /\ HistIdle
    /\ OutIdle

\* One step of the program in which the background task of cmd runs.
TaskStep(cmd) ==
    /\ GoRunCmd(cmd)
    /\ UNCHANGED <<allowedCommands, pathArg, gateName, gateArgs, gateRet, sanVars, apiVars, runVars, outVars, histVars, zoneVars, humanVars, envVars, clientVars, osVars, linkVars>>

RunNowNext ==
    \/ /\ ListCronJobs(a_root)
       /\ UNCHANGED <<allowedCommands, pathArg, racers, now, gateVars, sanVars, runVars, outVars, zoneVars, humanVars, envVars, clientVars, taskVars, osVars, linkVars>>
    \/ /\ Len(cronLog) < MaxCronRequests
       /\ JobLineCount(Content(files, crontabFile(a_root))) < MaxCronLines
       /\ \E command \in RunNowCommands : CreateCronJob(CronRequest(in_every5, command))
       /\ UNCHANGED <<allowedCommands, pathArg, racers, now, gateVars, sanVars, runVars, outVars, zoneVars, humanVars, envVars, clientVars, taskVars, osVars, linkVars>>
    \/ /\ Len(cronLog) < MaxCronRequests
       /\ DeleteCronJob(<<"1">>, <<>>)
       /\ UNCHANGED <<allowedCommands, pathArg, racers, now, gateVars, sanVars, runVars, outVars, zoneVars, humanVars, envVars, clientVars, taskVars, osVars, linkVars>>
    \/ /\ \E idStr \in {<<"1">>, <<"2">>, <<"3">>} : RunCronNow(idStr, <<>>)
       /\ UNCHANGED <<allowedCommands, pathArg, racers, now, gateVars, sanVars, runVars, outVars, zoneVars, humanVars, envVars, clientVars, osVars, linkVars>>
    \/ \E cmd \in RunNowCommands : TaskStep(cmd)

SpecRunNow == RunNowInit /\ [][RunNowNext]_vars

\* The Go scheduler runs every goroutine that is ready.
SpecRunNowFair ==
    SpecRunNow /\ \A cmd \in RunNowCommands : WF_vars(TaskStep(cmd))

Clients == {1, 2}

\* The id of a listed job as the client writes it into the URL.
IdText(id) == <<<<"0", "1", "2", "3", "4", "5", "6", "7", "8", "9">>[id + 1]>>

ClientsInit ==
    /\ allowedCommands = AllowedCommandsInit
    /\ ApiIdle
    /\ GateIdle
    /\ SanIdle
    /\ PathIdle
    /\ RunIdle
    /\ LinkIdle
    /\ OsIdle
    /\ TaskIdle
    /\ EnvIdle
    /\ HumanIdle
    /\ ZoneIdle
    /\ HistIdle
    /\ OutIdle
    /\ listings = [c \in Clients |-> <<>>]
    /\ meant = NoJob

ClientList(c) ==
    /\ ListCronJobs(a_root)
    /\ listings' = [listings EXCEPT ![c] = resp'.jobs]
    /\ UNCHANGED meant

ClientDelete(c) ==
    \E n \in DOMAIN listings[c] :
        /\ DeleteCronJob(IdText(listings[c][n].ID), <<>>)
        /\ meant' = listings[c][n]
        /\ UNCHANGED listings

ClientsNext ==
    \/ /\ \E c \in Clients : ClientList(c)
       /\ UNCHANGED <<allowedCommands, pathArg, racers, now, gateVars, sanVars, runVars, outVars, zoneVars, humanVars, envVars, taskVars, osVars, linkVars>>
    \/ /\ Len(cronLog) < MaxCronRequests
       /\ JobLineCount(Content(files, crontabFile(a_root))) < MaxCronLines
       /\ \E req \in {CronRequest(in_one, in_cmd_x), CronRequest(in_every5, in_cmd_y)} :
              CreateCronJob(req)
       /\ UNCHANGED <<allowedCommands, pathArg, racers, now, gateVars, sanVars, runVars, outVars, zoneVars, humanVars, envVars, clientVars, taskVars, osVars, linkVars>>
    \/ /\ Len(cronLog) < MaxCronRequests
       /\ \E c \in Clients : ClientDelete(c)
       /\ UNCHANGED <<allowedCommands, pathArg, racers, now, gateVars, sanVars, runVars, outVars, zoneVars, humanVars, envVars, taskVars, osVars, linkVars>>

SpecClients == ClientsInit /\ [][ClientsNext]_vars

(***************************************************************************)
(* SpecRecords: records of one zone are added and deleted within one clock *)
(* hour, with every name and type a DELETE body can carry, the empty ones  *)
(* included.                                                               *)
(***************************************************************************)
DnsDeleteNames == {in_www, in_shop, <<>>}

DnsDeleteTypes == {<<"A">>, <<>>}

\* The lines of a zone file that AddDNSRecord appended (name TTL IN type
\* value).
AddedRecords(content) ==
    SelectSeq(Split(content, "\n"),
        LAMBDA line : Len(Fields(line)) >= 5 /\ Fields(line)[3] = <<"I", "N">>)

\* CreateDNSZone reports the failed reload of bind: both files are written
\* and the answer is 500.
ReloadFailureReported(r) ==
    r.op = "CreateDNSZone" /\ r.status = 500 /\ bindNamedLocal \in r.writes

RecordsNext ==
    \/ /\ zoneFileOf(in_a_com) \notin DOMAIN files
       /\ CreateDNSZone(in_a_com, in_ip, <<>>)
       /\ ReloadFailureReported(resp') => ~daemonUp
       /\ (~daemonUp /\ bindNamedLocal \in resp'.writes) => ReloadFailureReported(resp')
       /\ filesBefore' = files
       /\ UNCHANGED <<allowedCommands, pathArg, cronLog, racers, now, gateVars, sanVars, runVars, outVars, zoneVars, humanVars, envVars, clientVars, taskVars, osVars, linkVars>>
    \/ /\ RoomInZone(Content(files, zoneFileOf(in_a_com)))
       /\ Len(AddedRecords(Content(files, zoneFileOf(in_a_com)))) < MaxZoneRecords
       /\ \E rec \in DnsRecordInputs : AddDNSRecord(in_a_com, rec, <<>>)
       /\ filesBefore' = files
       /\ UNCHANGED <<allowedCommands, pathArg, cronLog, racers, now, gateVars, sanVars, runVars, outVars, zoneVars, humanVars, envVars, clientVars, taskVars, osVars, linkVars>>
    \/ /\ \E bodyName \in DnsDeleteNames, bodyType \in DnsDeleteTypes :
                DeleteDNSRecord(in_a_com, bodyName, bodyType, <<>>)
       /\ filesBefore' = files
       /\ UNCHANGED <<allowedCommands, pathArg, cronLog, racers, now, gateVars, sanVars, runVars, outVars, zoneVars, humanVars, envVars, clientVars, taskVars, osVars, linkVars>>
    \/ /\ daemonUp' = ~daemonUp
       /\ UNCHANGED <<allowedCommands, pathArg, gateVars, sanVars, apiVars, runVars, outVars, histVars, zoneVars, humanVars, clientVars, taskVars, osVars, linkVars>>

SpecRecords == SerialInit /\ [][RecordsNext]_vars

(***************************************************************************)
(* SpecHuman: the summary of one schedule.                                 *)
(***************************************************************************)

ScheduleFieldInputs == {<<"*">>, <<"0">>, <<"1">>, in_every5}

HumanInit ==
    /\ allowedCommands = AllowedCommandsInit
    /\ cronFields \in [1..5 -> ScheduleFieldInputs]
    /\ summary = NoSummary
    /\ ApiIdle
    /\ GateIdle
    /\ SanIdle
    /\ PathIdle
    /\ RunIdle
    /\ LinkIdle
    /\ OsIdle
    /\ TaskIdle
    /\ ClientIdle
    /\ EnvIdle
    /\ HistIdle
    /\ ZoneIdle
    /\ OutIdle

\* parseCronLines asks for the summary of the five fields of a job.
Summarize ==
    /\ summary = NoSummary
    /\ summary' = humanReadableCron(cronFields[1], cronFields[2], cronFields[3],
                                    cronFields[4], cronFields[5])
    /\ UNCHANGED <<allowedCommands, pathArg, cronFields, gateVars, sanVars, apiVars, runVars, outVars, histVars, zoneVars, envVars, clientVars, taskVars, osVars, linkVars>>

HumanNext == Summarize

SpecHuman == HumanInit /\ [][HumanNext]_vars

(***************************************************************************)
(* Claims                                                                  *)
(***************************************************************************)

\* The characters of [A-Za-z0-9._-].
SafeChars ==
    {"a", "b", "c", "d", "e", "f", "g", "h", "i", "j", "k", "l", "m",
     "n", "o", "p", "q", "r", "s", "t", "u", "v", "w", "x", "y", "z",
     "A", "B", "C", "D", "E", "F", "G", "H", "I", "J", "K", "L", "M",
     "N", "O", "P", "Q", "R", "S", "T", "U", "V", "W", "X", "Y", "Z",
     "0", "1", "2", "3", "4", "5", "6", "7", "8", "9", ".", "_", "-"}

IsSafeChar(c) == c \in SafeChars

\* C5: for every input s, Sanitize(s) holds only characters of
\* [A-Za-z0-9._-], is s with the other characters removed (so the retained
\* characters keep their order), and sanitizing the result again changes
\* nothing; Sanitize("") = "" and Sanitize("a;b|c") = "abc".
C5_SanitizeFilter ==
    /\ sanStage # "in" =>
        /\ \A i \in 1..Len(clean) : clean[i] \in SafeChars
        /\ clean = SelectSeq(raw, IsSafeChar)
        /\ (raw = <<>> => clean = <<>>)
        /\ (raw = <<"a", ";", "b", "|", "c">> => clean = <<"a", "b", "c">>)
    /\ sanStage = "twice" => twice = clean

\* Witness of C5: an input with rejected characters was sanitized twice.
C5_Witness ==
    /\ sanStage = "twice"
    /\ raw = <<"a", ";", "b", "|", "c">>
    /\ twice = <<"a", "b", "c">>

\* The characters ; & | ` $ ( ) < > newline and carriage return.
DeniedChars == {";", "&", "|", "U+0060", "$", "(", ")", "<", ">", "\n", "\r"}

HasDeniedChar(args) ==
    \E i \in 1..Len(args) : \E j \in 1..Len(args[i]) : args[i][j] \in DeniedChars

\* C1: a process is started only by RunCmd and only for a command name of
\* the static allowlist: a call with a name outside it (curl) returns an
\* error and starts nothing, rm passes the allowlist check, and the
\* allowlist is the same set in every state.
C1_SpawnOnlyAllowlisted ==
    /\ allowedCommands = AllowedCommandsInit
    /\ \A argv \in spawned :
        /\ argv = <<c_sudo, gateName>> \o gateArgs
        /\ gateName \in AllowedCommandsInit
    /\ (gateRet # NoCall /\ gateName \notin AllowedCommandsInit) =>
        (gateRet.err = "not allowed" /\ spawned = {})
    /\ (gateRet # NoCall /\ gateName = c_rm) => gateRet.err # "not allowed"

\* Witness of C1: curl was refused and nothing was started.
C1_Witness ==
    /\ gateName = c_curl
    /\ gateRet.err = "not allowed"
    /\ spawned = {}

\* C2: a call with an argument that holds one of ; & | ` $ ( ) < > \n \r
\* returns an error and starts no process, whatever the command name; a
\* call with an allowlisted name and no such character starts the process.
C2_MetacharactersRejected ==
    gateRet # NoCall =>
        /\ HasDeniedChar(gateArgs) => (gateRet.err # "nil" /\ spawned = {})
        /\ (gateName \in AllowedCommandsInit /\ ~HasDeniedChar(gateArgs)) =>
            spawned = {<<c_sudo, gateName>> \o gateArgs}

\* Witness of C2: an allowlisted command with "$(" in an argument was
\* refused for the argument.
C2_Witness ==
    /\ gateName = c_rm
    /\ gateArgs = <<a_r, <<"$", "(">>>>
    /\ gateRet.err = "disallowed character"
    /\ spawned = {}

\* The walk of a request's segments from the root: TRUE when a ".." is met
\* at depth 0, so that the request names a place above the root.
RECURSIVE ClimbsAbove(_, _)
ClimbsAbove(elems, depth) ==
    IF elems = <<>> THEN FALSE
    ELSE IF Head(elems) = <<".", ".">>
         THEN depth = 0 \/ ClimbsAbove(Tail(elems), depth - 1)
    ELSE IF Head(elems) = <<>> \/ Head(elems) = <<".">>
         THEN ClimbsAbove(Tail(elems), depth)
    ELSE ClimbsAbove(Tail(elems), depth + 1)

ClimbsAboveRoot(req) == ClimbsAbove(Split(req, "/"), 0)

\* p is /var/www or a path below it with no "." or ".." element.
BelowRoot(p) ==
    /\ p = <<"/", "v", "a", "r", "/", "w", "w", "w">>
        \/ (Len(p) > 9
            /\ SubSeq(p, 1, 9) = <<"/", "v", "a", "r", "/", "w", "w", "w", "/">>)
    /\ \A e \in {Split(p, "/")[i] : i \in 1..Len(Split(p, "/"))} :
        e # <<".", ".">> /\ e # <<".">>

C4_ResultBelowRoot ==
    /\ \A i \in 1..Len(resp.paths) :
        resp.paths[i].err = "nil" => BelowRoot(resp.paths[i].path)
    /\ (resp.op = "ListFiles" /\ pathArg = <<>>) =>
        resp.paths[1] = [path |-> <<"/", "v", "a", "r", "/", "w", "w", "w">>,
                         err |-> "nil"]
    /\ (resp.op = "ListFiles" /\ pathArg = in_slash_a_b) =>
        resp.paths[1] = [path |-> <<"/", "v", "a", "r", "/", "w", "w", "w",
                                    "/", "a", "/", "b">>,
                         err |-> "nil"]
    /\ (resp.op = "CreateFTPUser" /\ resp.status = 201) =>
        /\ resp.calls[1].name = c_useradd
        /\ BelowRoot(resp.calls[1].args[3])

\* Witness of C4: an FTP account was created with the home directory
\* /var/www2/x requested, and useradd was given /var/www/2/x.
C4_Witness ==
    /\ resp.op = "CreateFTPUser"
    /\ pathArg = in_home_sibling
    /\ resp.calls[1].args[3] = <<"/", "v", "a", "r", "/", "w", "w", "w", "/", "2", "/", "x">>

\* C6: a request whose sanitized identifier (username, domain, database
\* name, mailbox local part or domain) is the empty string is answered 400
\* and runs no command and writes no file.
C6_EmptyIdentifierRejected ==
    (\E i \in 1..Len(resp.idents) : resp.idents[i] = <<>>) =>
        (resp.status = 400 /\ resp.calls = <<>> /\ resp.writes = {})

\* C7: a request to delete the account root (DeleteUser, DeleteFTPUser) or
\* to drop one of the databases mysql, information_schema,
\* performance_schema, sys (DropDatabase) is answered 403 and runs no
\* command; userdel is never run for root.
C7_ProtectedRefused ==
    /\ ((resp.op \in {"DeleteUser", "DeleteFTPUser"} /\ resp.idents = <<a_root>>)
        \/ (resp.op = "DropDatabase"
            /\ resp.idents[1] \in {c_mysql, db_information_schema,
                                   db_performance_schema, db_sys})) =>
        (resp.status = 403 /\ resp.calls = <<>>)
    /\ \A i \in 1..Len(resp.calls) :
        ~(resp.calls[i].name = c_userdel
          /\ resp.calls[i].argv # <<>>
          /\ resp.calls[i].args[Len(resp.calls[i].args)] = a_root)

\* C8: DeleteFile of a path that resolves to /var/www and RenameFile with a
\* source that resolves to /var/www are answered 403 and leave the
\* directory tree as it was.
C8_RootNeverTarget ==
    (resp.op \in {"DeleteFile", "RenameFile"}
     /\ resp.paths[1] = [path |-> fileManagerRoot, err |-> "nil"]) =>
        (resp.status = 403 /\ ~resp.fsChanged)

\* C9: every RunCmd call a handler issues names a command of the allowlist,
\* and the calls whose arguments hold no text of the request body (listing
\* and dropping a database, the mail queue, the Postfix map) hold none of
\* the characters RunCmd refuses, so RunCmd starts them.
C9_CallsPassValidation ==
    \A i \in 1..Len(resp.calls) :
        /\ resp.calls[i].name \in AllowedCommandsInit
        /\ resp.op \in {"ListDatabases", "DropDatabase", "GetMailQueue",
                        "FlushMailQueue"} =>
            (~HasDeniedChar(resp.calls[i].args) /\ resp.calls[i].argv # <<>>)

\* C10: no RunCmd invocation is still waiting for its program once the
\* deadline of its request (30 s after the request began) has passed: by
\* then it has returned to the handler.
C10_ReturnsByDeadline ==
    \A w \in Workers :
        workers[w].pc = "running" => clock <= workers[w].deadline

\* t is s without its leading and trailing white space.
IsTrimOf(t, s) ==
    \E i \in 1..(Len(s) + 1) : \E j \in 0..Len(s) :
        /\ t = SubSeq(s, i, j)
        /\ \A k \in 1..(i - 1) : s[k] \in {" ", "\t", "\n", "\r"}
        /\ \A k \in (j + 1)..Len(s) : s[k] \in {" ", "\t", "\n", "\r"}
        /\ t # <<>> => (t[1] \notin {" ", "\t", "\n", "\r"}
                        /\ t[Len(t)] \notin {" ", "\t", "\n", "\r"})

ListedLine(lines, id) ==
    LET listed(n) == Len(parseCronLines(JoinSep(SubSeq(lines, 1, n), <<"\n">>), a_root))
        hits == {n \in 1..Len(lines) : listed(n) = id /\ listed(n - 1) = id - 1}
    IN IF hits = {} THEN 0 ELSE CHOOSE n \in hits : TRUE

\* lines without line number n (all of them when n = 0).
WithoutLine(lines, n) ==
    IF n = 0 THEN lines
    ELSE SubSeq(lines, 1, n - 1) \o SubSeq(lines, n + 1, Len(lines))

\* lines with line number n replaced (none when n = 0).
WithLine(lines, n, line) ==
    IF n = 0 THEN lines ELSE [lines EXCEPT ![n] = line]

\* C13: for every crontab content, blank lines, comments, MAILTO, PATH and
\* SHELL lines and lines of fewer than six fields included, a successful
\* DeleteCronJob(id) removes and a successful UpdateCronJob(id) replaces the
\* line that ListCronJobs reports as the job with that id.
C13_ActsOnListedLine ==
    (resp.op \in {"DeleteCronJob", "UpdateCronJob"} /\ resp.status = 200) =>
        LET file == crontabFile(resp.idents[1])
            lines == Split(filesBefore[file], "\n")
            n == ListedLine(lines, resp.id)
        IN files[file] =
            JoinSep(IF resp.op = "DeleteCronJob"
                    THEN WithoutLine(lines, n)
                    ELSE WithLine(lines, n, resp.line), <<"\n">>)

\* C15: DeleteCronJob and UpdateCronJob with an id that is 0 or greater than
\* the number of job lines of the crontab leave the content of the crontab
\* file as it was.
C15_OutOfRangeIdChangesNothing ==
    (/\ resp.op \in {"DeleteCronJob", "UpdateCronJob"}
     /\ crontabFile(resp.idents[1]) \in DOMAIN filesBefore
     /\ \/ resp.id = 0
        \/ resp.id > JobLineCount(filesBefore[crontabFile(resp.idents[1])])) =>
        files = filesBefore

\* The job ListCronJobs reports for a line CreateCronJob wrote from req.
ListedJob(req, id) ==
    [ID |-> id, Minute |-> req.Minute, Hour |-> req.Hour, Day |-> req.Day,
     Month |-> req.Month, Weekday |-> req.Weekday,
     Command |-> JoinSep(Fields(req.Command), <<" ">>),
     User |-> a_root, Enabled |-> TRUE]

\* cronLog is n calls of CreateCronJob followed by the calls named in ops.
CreatedThen(n, ops) ==
    /\ Len(cronLog) = n + Len(ops)
    /\ \A i \in 1..n : cronLog[i].op = "CreateCronJob"
    /\ \A i \in 1..Len(ops) :
        cronLog[n + i].op = ops[i].op /\ cronLog[n + i].id = ops[i].id

\* C14: from an empty crontab, after three successful CreateCronJob calls
\* ListCronJobs returns three jobs with ids 1, 2, 3 in creation order; after
\* DeleteCronJob with id 2 it returns two jobs with ids 1 and 2 that carry
\* the schedule fields and the command of the former jobs 1 and 3.
C14_PositionalIds ==
    resp.op = "ListCronJobs" =>
        /\ CreatedThen(3, <<>>) =>
            resp.jobs = <<ListedJob(cronLog[1].req, 1), ListedJob(cronLog[2].req, 2),
                          ListedJob(cronLog[3].req, 3)>>
        /\ CreatedThen(3, <<[op |-> "DeleteCronJob", id |-> 2]>>) =>
            resp.jobs = <<ListedJob(cronLog[1].req, 1), ListedJob(cronLog[3].req, 2)>>

\* The five schedule fields of a body are non-empty and hold only
\* characters of [0-9*/,-].
ScheduleChars == {"0", "1", "2", "3", "4", "5", "6", "7", "8", "9", "*", "/", ",", "-"}

ValidSchedule(req) ==
    \A field \in {req.Minute, req.Hour, req.Day, req.Month, req.Weekday} :
        field # <<>> /\ \A i \in 1..Len(field) : field[i] \in ScheduleChars

\* C16: CreateCronJob and UpdateCronJob write a job line only from a body
\* whose five schedule fields are non-empty and consist of characters of
\* [0-9*/,-]; a request with any other schedule field is rejected and the
\* crontab is left unchanged.
C16_ScheduleFieldsValidated ==
    (resp.op \in {"CreateCronJob", "UpdateCronJob"} /\ ~ValidSchedule(resp.req)) =>
        (resp.status \notin {200, 201} /\ files = filesBefore)

\* The crontab content after the request r ran alone on content.
EffectAlone(r, content) ==
    IF r.op = "CreateCronJob" THEN content \o r.line \o <<"\n">>
    ELSE IF r.op = "DeleteCronJob" THEN removeCronLine(content, r.id)
    ELSE updateCronLine(content, r.id, r.line)

\* C12: when two mutating requests on one crontab run concurrently and both
\* report success, the file ends with the effect of both: its content is
\* what the two requests produce when one runs after the other.
C12_NoLostUpdate ==
    (/\ racers # <<>>
     /\ \A w \in Racers : racers[w].pc = "done" /\ racers[w].status \in {200, 201}) =>
        LET file == crontabFile(a_root)
            start == filesBefore[file]
        IN files[file] \in
            {EffectAlone(racers[2], EffectAlone(racers[1], start)),
             EffectAlone(racers[1], EffectAlone(racers[2], start))}

\* The lines of a file.
LinesOf(fs, file) == Split(Content(fs, file), "\n")

\* C19: DeleteMailDomain(d) removes from the virtual_mailbox_domains file
\* only the line equal to d: every other line of the file remains, the
\* domains that have d as a prefix (a.com.au for a.com) included.
C19_OnlyTheEqualLineRemoved ==
    (resp.op = "DeleteMailDomain" /\ resp.status = 200) =>
        LET before == LinesOf(filesBefore, postfixVirtualDomainsFile)
            after == LinesOf(files, postfixVirtualDomainsFile)
        IN after = SelectSeq(before, LAMBDA line : line # resp.idents[1])
           \/ after = before

\* C20: after DeleteMailDomain(d) the derived mailbox count of d, the
\* number of virtual-map lines that hold "@" + d, is 0.
C20_NoMailboxLeftForDomain ==
    (resp.op = "DeleteMailDomain" /\ resp.status = 200) =>
        countMailboxesForDomain(files, resp.idents[1]) = 0

\* The zone has a record of type A with the given name and value.
HasARecord(zone, name, value) ==
    \E i \in 1..Len(zone.Records) :
        /\ zone.Records[i].Name = name
        /\ zone.Records[i].Type = <<"A">>
        /\ zone.Records[i].Value = value

\* C17: parsing the zone file that buildZoneFile(domain, ip, serial) builds
\* yields a zone whose serial is the given serial and whose records include
\* the A record of "@" and the A record of "www", both with value ip: the
\* record lines without a TTL column are recognised as records.
C17_ZoneRoundTrip ==
    zoneOut # NoZone =>
        /\ zoneOut.Serial = DigitsValue(zoneIn.serial)
        /\ HasARecord(zoneOut, <<"@">>, zoneIn.ip)
        /\ HasARecord(zoneOut, in_www, zoneIn.ip)

\* The SOA serial of the zone of a.com in fs.
SerialOf(fs) == parseZoneFile(fs[zoneFileOf(in_a_com)], in_a_com).Serial

\* C18: after every successful AddDNSRecord or DeleteDNSRecord on a zone
\* the SOA serial of the zone is strictly greater than before the
\* operation, whatever the operations before and the time of the call.
C18_SerialStrictlyIncreases ==
    (/\ resp.op \in {"AddDNSRecord", "DeleteDNSRecord"}
     /\ resp.status \in {200, 201}) =>
        SerialOf(files) > SerialOf(filesBefore)

\* The five canonical schedules and the summary of each.
CanonicalSummaries ==
    {<< <<"*", "*", "*", "*", "*">>, <<"E", "v", "e", "r", "y", " ", "m", "i", "n", "u", "t", "e">> >>,
     << <<"0", "*", "*", "*", "*">>, <<"E", "v", "e", "r", "y", " ", "h", "o", "u", "r">> >>,
     << <<"0", "0", "*", "*", "*">>, <<"D", "a", "i", "l", "y", " ", "a", "t", " ", "m", "i", "d", "n", "i", "g", "h", "t">> >>,
     << <<"0", "0", "*", "*", "0">>, <<"W", "e", "e", "k", "l", "y", " ", "o", "n", " ", "S", "u", "n", "d", "a", "y">> >>,
     << <<"0", "0", "1", "*", "*">>, <<"M", "o", "n", "t", "h", "l", "y", " ", "o", "n", " ", "t", "h", "e", " ", "1", "s", "t">> >>}

\* The five fields as one-character texts, for the schedules drawn from
\* one-character fields.
FieldsAsChars == [i \in 1..5 |-> IF Len(cronFields[i]) = 1 THEN cronFields[i][1] ELSE "?"]

\* C29: humanReadableCron returns one of the five canonical summaries only
\* for the canonical schedules (every minute, every hour, daily at
\* midnight, weekly on Sunday, monthly on the 1st) and the raw five-field
\* text for every other schedule.
C29_CanonicalSummariesOnly ==
    summary # NoSummary =>
        IF \E c \in CanonicalSummaries : c[1] = FieldsAsChars
        THEN \E c \in CanonicalSummaries : c[1] = FieldsAsChars /\ summary = c[2]
        ELSE summary = JoinSep(cronFields, <<" ">>)

\* The number of the SOA serial line of a zone file: the line that holds
\* the serial and the comment "; Serial".
SerialLineOf(lines, serial) ==
    CHOOSE i \in 1..Len(lines) :
        Fields(lines[i]) = <<serial, <<";">>, <<"S", "e", "r", "i", "a", "l">>>>

\* C27: for every domain name, bumpSerial applied to a zone file that
\* buildZoneFile produced changes only the serial token of the SOA serial
\* line: every other token and every other line, the SOA owner line that
\* starts with "@" included, is unchanged.
C27_OnlySerialTokenChanges ==
    files # <<>> =>
        LET before == Split(buildZoneFile(zoneIn.domain, zoneIn.ip, zoneIn.serial), "\n")
            after == Split(files[zoneFileOf(zoneIn.domain)], "\n")
            n == SerialLineOf(before, zoneIn.serial)
        IN /\ Len(after) = Len(before)
           /\ \A i \in 1..Len(before) : i # n => after[i] = before[i]
           /\ Tail(Fields(after[n])) = Tail(Fields(before[n]))

\* The name and type columns of a zone line, for both layouts the panel
\* writes (name IN type value, and name TTL IN type value); <<>> for a line
\* that is no record.
RecordColumns(line) ==
    LET f == Fields(line)
    IN IF Len(f) >= 5 /\ f[3] = <<"I", "N">> THEN <<f[1], f[4]>>
       ELSE IF Len(f) >= 4 /\ f[2] = <<"I", "N">> THEN <<f[1], f[3]>>
       ELSE <<>>

IsSoaSerialLine(line) ==
    Len(Fields(line)) = 3 /\ Tail(Fields(line)) = <<<<";">>, <<"S", "e", "r", "i", "a", "l">>>>

SameButSerial(a, b) ==
    /\ Len(a) = Len(b)
    /\ \A i \in 1..Len(a) : a[i] = b[i] \/ (IsSoaSerialLine(a[i]) /\ IsSoaSerialLine(b[i]))

\* C26: DeleteDNSRecord with body {name, type} removes exactly the record
\* lines whose name column equals name and whose type column equals type;
\* every other line of the zone file is unchanged but for the serial token,
\* for every name and type, the empty ones included.
C26_ExactlyTheNamedRecordRemoved ==
    [][\A bodyName \in DnsDeleteNames, bodyType \in DnsDeleteTypes :
          (/\ DeleteDNSRecord(in_a_com, bodyName, bodyType, <<>>)
           /\ resp'.status = 200
           /\ resp'.writes # {})
          => SameButSerial(
                 Split(files'[zoneFileOf(in_a_com)], "\n"),
                 SelectSeq(Split(files[zoneFileOf(in_a_com)], "\n"),
                     LAMBDA line : RecordColumns(line) # <<bodyName, bodyType>>))]_vars

\* The virtual-map entry CreateMailbox writes for a user and a domain.
MapEntry(user, domain) ==
    user \o <<"@">> \o domain \o <<" ">> \o domain \o <<"/">> \o user \o <<"/">>

\* CreateMailbox has appended the map entry and failed on the credential
\* entry.
CredentialAppendFailed ==
    resp.op = "CreateMailbox" /\ resp.writes = {postfixVirtualMapsFile}

\* C25: when CreateMailbox has appended the virtual-map entry and then fails
\* to append the credential entry, it answers with an error and the map
\* entry stays in the map file: nothing is rolled back, and the credential
\* file is as it was.
C25_MapEntryStaysWithoutCredential ==
    CredentialAppendFailed =>
        /\ resp.status >= 400
        /\ files = appendLine(filesBefore, postfixVirtualMapsFile,
                       MapEntry(resp.idents[1], resp.idents[2]))
        /\ Contains(Content(files, postfixVirtualMapsFile),
               MapEntry(resp.idents[1], resp.idents[2]))
        /\ Content(files, dovecotPasswdFile) = Content(filesBefore, dovecotPasswdFile)

C25_Witness ==
    /\ CredentialAppendFailed
    /\ resp.status = 500
    /\ resp.idents = <<in_bob, in_a_com>>
    /\ Contains(Content(files, postfixVirtualMapsFile), MapEntry(in_bob, in_a_com))
    /\ ~Contains(Content(files, dovecotPasswdFile), in_email)

\* The request behind a response reloaded or restarted a daemon.
Reloads(r) ==
    \E i \in DOMAIN r.calls :
        /\ r.calls[i].name = c_systemctl
        /\ r.calls[i].args # <<>>
        /\ r.calls[i].args[1] \in {a_reload, a_restart}

\* C21: whenever the reload or restart of the daemon fails after the
\* configuration file was changed, the operation answers with an error and
\* the change of the file stays in place.
C21_FailedReloadIsReported ==
    [][(/\ daemonUp' = daemonUp
        /\ ~daemonUp
        /\ Reloads(resp')
        /\ resp'.writes # {})
       => /\ resp'.status >= 400
          /\ \A f \in resp'.writes :
                f \in DOMAIN files' /\ files'[f] # Content(files, f)]_vars

\* C22: no mutating operation answers 200 or 201 when its target file was
\* not updated or when the command it depends on failed.
C22_SuccessMeansDone ==
    [][(/\ daemonUp' = daemonUp
        /\ resp'.status \in {200, 201})
       => /\ resp'.writes # {}
          /\ Reloads(resp') => daemonUp]_vars

\* The jobs of root's crontab in a file system, without their ids.
JobsWithoutId(fs) ==
    LET jobs == readCrontab(fs, a_root)
    IN [k \in DOMAIN jobs |-> [jobs[k] EXCEPT !.ID = 0]]

\* jobs without the first job equal to job (all of them when there is none).
WithoutJob(jobs, job) ==
    LET hits == {k \in DOMAIN jobs : jobs[k] = job}
    IN IF hits = {} THEN jobs
       ELSE WithoutLine(jobs, CHOOSE k \in hits : \A h \in hits : k <= h)

\* C28: a successful DeleteCronJob(id) removes the job that had that id in
\* the listing the caller received last, also when another request deleted
\* or added a line in between; two clients that both list and both delete
\* id 1 remove one job, not two.
C28_DeletesTheListedJob ==
    (resp.op = "DeleteCronJob" /\ resp.status = 200 /\ meant # NoJob) =>
        JobsWithoutId(files) = WithoutJob(JobsWithoutId(filesBefore), [meant EXCEPT !.ID = 0])

\* The process that executes a cron command: sudo bash -c command.
BashProcess(cmd) == <<c_sudo, c_bash, a_dash_c, cmd>>

\* C23: RunCronNow for an id that ListCronJobs reports answers at once,
\* without waiting for the command; the command of the job is launched on
\* a detached background task and is eventually executed.
C23_TriggeredJobEventuallyRuns ==
    \A cmd \in RunNowCommands :
        (cmd \in tasks) ~> (BashProcess(cmd) \in spawned)

\* In the last CreateUser request useradd succeeded and chpasswd failed.
PasswordStepFailed ==
    resp.op = "CreateUser" /\ Len(errs) >= 2 /\ errs[1] = "nil" /\ errs[2] # "nil"

\* C24: when in CreateUser the account creation succeeds and the
\* password-set step fails, CreateUser issues a compensating deletion of
\* exactly that account and answers with an error; when the compensating
\* deletion succeeds, the account does not exist after the request.
C24_FailedPasswordIsCompensated ==
    PasswordStepFailed =>
        /\ resp.status >= 400
        /\ Len(resp.calls) = 3
        /\ resp.calls[3].argv = <<c_sudo, c_userdel, a_r, resp.idents[1]>>
        /\ resp.calls[1].args[Len(resp.calls[1].args)] = resp.idents[1]
        /\ Len(errs) = 3
        /\ errs[3] = "nil" => resp.idents[1] \notin accounts

C24_Witness ==
    /\ PasswordStepFailed
    /\ resp.status = 500
    /\ errs = <<"nil", "command failed", "nil">>
    /\ resp.idents = <<in_bob>>
    /\ in_bob \notin accounts
    /\ in_shop \in accounts

\* The response of a CreateVhost request whose nginx configuration test
\* failed.
ConfigTestFailed(r) ==
    /\ r.op = "CreateVhost"
    /\ r.status = 500
    /\ \E i \in DOMAIN r.calls : r.calls[i].name = c_nginx

\* C30: when CreateVhost fails because the nginx configuration test fails,
\* the available and the enabled vhosts are the same as before the request:
\* a vhost of that domain that existed before still exists with its
\* previous configuration and its previous enabled state.
C30_FailedCreateLeavesVhosts ==
    [][ConfigTestFailed(resp') => (files' = files /\ symlinks' = symlinks)]_vars
====
